---- MODULE Spec2Model ----
(***************************************************************************)
(* The authoritative server core of the arena shooter: the world state     *)
(* (state.ts), the bullet, mine, powerup and laser systems, the 16 ms game *)
(* loop, the socket handlers, the death / respawn orchestrator and the     *)
(* admin channel (socket.ts).                                              *)
(*                                                                         *)
(* Conventions of the model                                                *)
(*  - Node runs every callback to completion, so one action is one         *)
(*    callback: one socket handler, one pass of the game loop, one fired   *)
(*    timer, or the part of an async handler between two awaits.           *)
(*  - Sequential code is a chain of operators over a world record w, which *)
(*    holds every variable; an action computes the last world of the chain *)
(*    and stores it with Commit.                                           *)
(*  - Time is relative: a pending setTimeout holds the milliseconds left   *)
(*    until it is due, and the spawn cadences hold the milliseconds left   *)
(*    until Date.now() - lastSpawnTime exceeds the interval.               *)
(*  - Coordinates are integers; directions are multiples of a quarter turn *)
(*    so that cos and sin are exact.                                       *)
(*  - out is the sequence of events the last callback emitted.             *)
(***************************************************************************)
EXTENDS Integers, Sequences, FiniteSets, TLC

VARIABLES
  users,        \* state.ts users: ship id -> ship, for the ids in the Map
  order,        \* the insertion order of the users Map
  sockets,      \* the connected sockets (io.sockets.sockets)
  used,         \* the socket ids handed out so far (an id is never reused)
  pending,      \* the sockets whose connection handler awaits getPlayerName
  ready,        \* the sockets whose game handlers are registered
  bots,         \* state.ts bots, in insertion order
  settings,     \* state.ts settings
  bullets,      \* BulletSystem.bullets
  mines,        \* MineSystem.mines
  mineWait,     \* ms until Date.now() - lastSpawnTime > spawnInterval (mines)
  nextMineId,   \* MineSystem.nextId
  powerups,     \* PowerUpSystem.powerups
  powerupWait,  \* ms until the powerup spawn cadence allows a spawn
  lasers,       \* LaserSystem.lasers
  timers,       \* the pending setTimeout callbacks, in creation order
  endGames,     \* the admin:endGame invocations awaiting a hub response
  hubPosts,     \* player key -> the score POSTs the hub has accepted for it
  fuel,         \* the callbacks the run may still execute
  out,          \* the events the last callback emitted
  watch,        \* what the run records: a subset of {"mine", "bullet", "hit"}
  clock,        \* ms since the start, kept while something is recorded
  log,          \* the records: the mine explosions and the bullets fired
  variant       \* the source of MineSystem: "mines.ts" or "part_011"

vars == << users, order, sockets, used, pending, ready, bots, settings,
           bullets, mines, mineWait, nextMineId, powerups, powerupWait,
           lasers, timers, endGames, hubPosts, fuel, out, watch, clock,
           log, variant >>

-----------------------------------------------------------------------------
(* Program constants *)

MAP_WIDTH == 2000
MAP_HEIGHT == 1600
HalfW == MAP_WIDTH \div 2
HalfH == MAP_HEIGHT \div 2

RESPAWN_DELAY == 6000
CHAIN_DELAY == 100
KICK_DELAY == 100
USER_RADIUS == 25
BOT_RADIUS == 25
BULLET_DAMAGE == 10
HEALTH_PACK == 50
SHIELD_HP == 30
LASER_LENGTH == 2000
LASER_DAMAGE == 2
LASER_DURATION == 120
LASER_WIDTH == 10
LASER_TARGET_RADIUS == 25
mineSpawnInterval == 2000
maxMines == 10
mineRadius == 20
damageRadius == 240
mineDamage == 40
knockbackStrength == 20
powerupSpawnInterval == 3000
maxPowerUps == 5
powerupCollisionRadius == 30
BULLET_SPEED == 15
bulletSpeed == 15
botBulletSpeed == 12
ROCKET_SPEED == 6
BULLET_LIFETIME == 120
ROCKET_LIFETIME == 180
KILL_POINTS == 100
DEATH_POINTS == 50
MAX_HEALTH == 100
SHIP_RADIUS == 25
MAX_SPEED == 15
DEFAULT_BOT_HEALTH == 30

ADMIN_PASSWORD == "admin"

-----------------------------------------------------------------------------
(* Bounds of the model *)

MaxSteps == 5
MaxKillSteps == 4
MaxChainSteps == 8
MaxBounceSteps == 3
MaxScoreSteps == 6
MaxBullets == 1
MaxBots == 1
MaxEndGames == 2
MaxRank == 8
MaxBotSteps == 5
MaxShotSteps == 5
MaxPassSteps == 5
MaxPassBullets == 2

UserIds == {"u1", "u2"}
None == "none"

-----------------------------------------------------------------------------
(* JavaScript numbers: an integer, or NaN.  Math.min / Math.max return NaN *)
(* when an argument is NaN, arithmetic on NaN is NaN, and every comparison *)
(* with NaN is false.                                                      *)

NaN == -1000000 - 1

(* a value that is no number (typeof is not 'number'), and the infinities *)
Undefined == NaN - 1
Infinity == -(NaN + 1)
IsNumber(a) == a # Undefined

IsNaN(a) == a = NaN
JsMin(a, b) == IF IsNaN(a) \/ IsNaN(b) THEN NaN ELSE IF a < b THEN a ELSE b
JsMax(a, b) == IF IsNaN(a) \/ IsNaN(b) THEN NaN ELSE IF a > b THEN a ELSE b
JsAdd(a, b) == IF IsNaN(a) \/ IsNaN(b) THEN NaN ELSE a + b
JsSub(a, b) == IF IsNaN(a) \/ IsNaN(b) THEN NaN ELSE a - b
JsLe(a, b) == ~IsNaN(a) /\ ~IsNaN(b) /\ a <= b
JsLt(a, b) == ~IsNaN(a) /\ ~IsNaN(b) /\ a < b
JsGt(a, b) == ~IsNaN(a) /\ ~IsNaN(b) /\ a > b

Min(a, b) == IF a < b THEN a ELSE b
Max(a, b) == IF a > b THEN a ELSE b
Abs(a) == IF a < 0 THEN -a ELSE a

(* Directions: k quarter turns, angle k * pi / 2 *)
Dirs == 0 .. 3
Cos(d) == CASE d = 0 -> 1 [] d = 1 -> 0 [] d = 2 -> -1 [] OTHER -> 0
Sin(d) == CASE d = 0 -> 0 [] d = 1 -> 1 [] d = 2 -> 0 [] OTHER -> -1

Dist2(x1, y1, x2, y2) == (x1 - x2) * (x1 - x2) + (y1 - y2) * (y1 - y2)

RemoveAt(s, i) == SubSeq(s, 1, i - 1) \o SubSeq(s, i + 1, Len(s))

(* Array.prototype.findIndex, 1-based; 0 when absent *)
FindIndex(s, P(_)) ==
  IF \E i \in 1 .. Len(s) : P(s[i])
  THEN CHOOSE i \in 1 .. Len(s) : P(s[i]) /\ \A j \in 1 .. i - 1 : ~P(s[j])
  ELSE 0

TruncDiv(a, b) == IF a >= 0 THEN a \div b ELSE -((-a) \div b)

(* Every event has the same shape: ev the name, id the ship (or bot) it is  *)
(* about, by the socket or attacker it names, val and aux two numbers.     *)
(* site is not part of the payload: it names the place in the code that    *)
(* emitted the event, for the events that several places emit.             *)
EventAt(site, ev, id, by, val, aux) ==
  [ev |-> ev, id |-> id, by |-> by, val |-> val, aux |-> aux, site |-> site]

Event(ev, id, by, val, aux) == EventAt("", ev, id, by, val, aux)

-----------------------------------------------------------------------------
(* The world record and its commit *)

World ==
  [users |-> users, order |-> order, sockets |-> sockets, used |-> used,
   pending |-> pending, ready |-> ready, bots |-> bots,
   settings |-> settings, bullets |-> bullets, mines |-> mines,
   mineWait |-> mineWait, nextMineId |-> nextMineId, powerups |-> powerups,
   powerupWait |-> powerupWait, lasers |-> lasers, timers |-> timers,
   endGames |-> endGames, hubPosts |-> hubPosts, fuel |-> fuel,
   out |-> << >>, watch |-> watch, clock |-> clock, log |-> log,
   variant |-> variant]

Commit(w) ==
  /\ users' = w.users
  /\ order' = w.order
  /\ sockets' = w.sockets
  /\ used' = w.used
  /\ pending' = w.pending
  /\ ready' = w.ready
  /\ bots' = w.bots
  /\ settings' = w.settings
  /\ bullets' = w.bullets
  /\ mines' = w.mines
  /\ mineWait' = w.mineWait
  /\ nextMineId' = w.nextMineId
  /\ powerups' = w.powerups
  /\ powerupWait' = w.powerupWait
  /\ lasers' = w.lasers
  /\ timers' = w.timers
  /\ endGames' = w.endGames
  /\ hubPosts' = w.hubPosts
  /\ fuel' = w.fuel
  /\ out' = w.out
  /\ watch' = w.watch
  /\ clock' = w.clock
  /\ log' = w.log
  /\ variant' = w.variant

(* the event e goes out; the record of a bullet:spawn is kept if watched *)
Emit(w, e) ==
  IF e.ev = "bullet:spawn" /\ "spawn" \in w.watch
  THEN [w EXCEPT !.out = Append(@, e),
                 !.log = Append(@, [kind |-> "spawn", bullet |-> e.val,
                                    by |-> e.id])]
  ELSE [w EXCEPT !.out = Append(@, e)]

HasUser(w, id) == id \in DOMAIN w.users

-----------------------------------------------------------------------------
(* state.ts *)

Colors ==
  << "#00FFFF", "#FF00FF", "#FFFF00", "#00FF00", "#FF0099", "#00FFAA",
     "#FF6600", "#9900FF", "#00FF66", "#FF3366", "#66FF00", "#0099FF",
     "#FF9900", "#CC00FF", "#00FFCC" >>

(* users.size is the length of the insertion order *)
generateColor(w) == Colors[(Len(w.order) % Len(Colors)) + 1]

(* a label is a text and a number: << "User", 2 >> is `User 2`, and a name *)
(* from the hub has the number 0                                           *)
NewUser(playerKey, color, label) ==
  [color |-> color, label |-> label, health |-> MAX_HEALTH, shield |-> 0, x |-> 0, y |-> 0, vx |-> 0, vy |-> 0,
   rotation |-> 0, weaponType |-> "machineGun", radius |-> SHIP_RADIUS,
   kills |-> 0, deaths |-> 0, points |-> 0, playerKey |-> playerKey,
   scoreSubmitted |-> FALSE]

addUser(w, id, playerKey) ==
  [w EXCEPT !.users = [i \in DOMAIN w.users \cup {id} |->
                         IF i = id
                         THEN NewUser(playerKey, generateColor(w),
                                      << IF playerKey # None THEN "Player"
                                         ELSE "User", Len(w.order) + 1 >>)
                         ELSE w.users[i]],
            !.order = IF HasUser(w, id) THEN @ ELSE Append(@, id)]

removeUser(w, id) ==
  IF HasUser(w, id)
  THEN [w EXCEPT !.users = [i \in DOMAIN w.users \ {id} |-> w.users[i]],
                 !.order = SelectSeq(@, LAMBDA i : i # id)]
  ELSE w

updateCursor(w, id, x, y, rotation) ==
  IF HasUser(w, id)
  THEN [w EXCEPT !.users[id].x = x, !.users[id].y = y,
                 !.users[id].rotation = rotation]
  ELSE w

(* The health updateHealth stores: Math.max(0, Math.min(100, health)) *)
ClampHealth(health) == JsMax(0, JsMin(MAX_HEALTH, health))

updateHealth(w, id, health) ==
  IF HasUser(w, id)
  THEN [w EXCEPT !.users[id].health = ClampHealth(health)]
  ELSE w

addKill(w, id) ==
  IF HasUser(w, id) THEN [w EXCEPT !.users[id].kills = @ + 1] ELSE w

addDeath(w, id) ==
  IF HasUser(w, id) THEN [w EXCEPT !.users[id].deaths = @ + 1] ELSE w

(* markScoreSubmitted leaving the flag as it is *)
markScoreSubmittedNot(w, id) == w

applyKnockback(w, id, forceX, forceY) ==
  IF HasUser(w, id)
  THEN [w EXCEPT !.users[id].vx = @ + forceX, !.users[id].vy = @ + forceY]
  ELSE w

markScoreSubmitted(w, id) ==
  IF HasUser(w, id) THEN [w EXCEPT !.users[id].scoreSubmitted = TRUE] ELSE w

(* One ship's physics step.  Velocities are integers: the product with the *)
(* friction 0.92 is truncated toward zero (which also stops a velocity     *)
(* below the 0.01 threshold), and the speed cap compares squares.          *)
Friction(v) == TruncDiv(v * 92, 100)
Isqrt(n) == CHOOSE r \in 0 .. n : r * r <= n /\ (r + 1) * (r + 1) > n

PhysicsStep(u) ==
  LET x1 == u.x + u.vx
      y1 == u.y + u.vy
      vx1 == Friction(u.vx)
      vy1 == Friction(u.vy)
      speed2 == vx1 * vx1 + vy1 * vy1
      fast == speed2 > MAX_SPEED * MAX_SPEED
      vx2 == IF fast THEN TruncDiv(vx1 * MAX_SPEED, Isqrt(speed2)) ELSE vx1
      vy2 == IF fast THEN TruncDiv(vy1 * MAX_SPEED, Isqrt(speed2)) ELSE vy1
      x2 == Max(-HalfW, Min(x1, HalfW))
      y2 == Max(-HalfH, Min(y1, HalfH))
      vx3 == IF x2 <= -HalfW \/ x2 >= HalfW THEN TruncDiv(-vx2, 2) ELSE vx2
      vy3 == IF y2 <= -HalfH \/ y2 >= HalfH THEN TruncDiv(-vy2, 2) ELSE vy2
  IN [u EXCEPT !.x = x2, !.y = y2, !.vx = vx3, !.vy = vy3]

updatePhysics(w) ==
  [w EXCEPT !.users = [i \in DOMAIN w.users |-> PhysicsStep(w.users[i])]]

-----------------------------------------------------------------------------
(* socket.ts: damage, death and respawn *)

(* A pending setTimeout callback with what its closure holds. root is not *)
(* in the closure: it records the mine whose trigger started the chain.    *)
Timer(kind, id, x, y, r, by, left) ==
  [kind |-> kind, id |-> id, x |-> x, y |-> y, r |-> r, by |-> by,
   left |-> left, root |-> 0]

setTimeout(w, t) == [w EXCEPT !.timers = Append(@, t)]

(* applyDamage: the shield absorbs first, the rest goes to health *)
ShieldAbsorb(u, damage) == IF u.shield > 0 THEN Min(u.shield, damage) ELSE 0

applyDamage(w, id, damage) ==
  LET u == w.users[id]
      rest == damage - ShieldAbsorb(u, damage)
      w1 == [w EXCEPT !.users[id].shield = @ - ShieldAbsorb(u, damage)]
  IN IF rest > 0
     THEN updateHealth(w1, id, JsMax(0, JsSub(u.health, rest)))
     ELSE w1

(* the number applyDamage returns *)
applyDamageResult(w, id, damage) ==
  LET u == w.users[id]
      rest == damage - ShieldAbsorb(u, damage)
  IN IF rest > 0 THEN JsMax(0, JsSub(u.health, rest)) ELSE u.health

EmitStats(w, id) ==
  Emit(w, Event("stats:update", id, None, w.users[id].kills,
                w.users[id].deaths))

(* handleDeath without the test that the attacker is another ship *)
handleDeathSelfCredit(w, userId, attackerId) ==
  LET hasUser == HasUser(w, userId)
      hasAttacker == attackerId # None /\ HasUser(w, attackerId)
      other == TRUE
      w1 == IF hasUser /\ hasAttacker
            THEN LET a == addDeath(w, userId)
                     b == IF other
                          THEN [addKill(a, attackerId) EXCEPT
                                  !.users[attackerId].points = @ + KILL_POINTS,
                                  !.users[userId].points =
                                     Max(0, @ - DEATH_POINTS)]
                          ELSE a
                     c == Emit(b, Event("player:killed", userId, attackerId,
                                        0, 0))
                     d == EmitStats(c, userId)
                     e == IF other THEN EmitStats(d, attackerId) ELSE d
                 IN Emit(e, Event("score:update", None, None, 0, 0))
            ELSE IF hasUser
            THEN LET a == EmitStats(addDeath(w, userId), userId)
                 IN Emit(a, Event("score:update", None, None, 0, 0))
            ELSE w
      w2 == Emit(w1, Event("player:respawn", userId, None, RESPAWN_DELAY, 0))
  IN setTimeout(w2, Timer("respawn", userId, 0, 0, 0, None, RESPAWN_DELAY))

handleDeath(w, userId, attackerId) ==
  LET hasUser == HasUser(w, userId)
      hasAttacker == attackerId # None /\ HasUser(w, attackerId)
      other == userId # attackerId
      w1 == IF hasUser /\ hasAttacker
            THEN LET a == addDeath(w, userId)
                     b == IF other
                          THEN [addKill(a, attackerId) EXCEPT
                                  !.users[attackerId].points = @ + KILL_POINTS,
                                  !.users[userId].points =
                                     Max(0, @ - DEATH_POINTS)]
                          ELSE a
                     c == Emit(b, Event("player:killed", userId, attackerId,
                                        0, 0))
                     d == EmitStats(c, userId)
                     e == IF other THEN EmitStats(d, attackerId) ELSE d
                 IN Emit(e, Event("score:update", None, None, 0, 0))
            ELSE IF hasUser
            THEN LET a == EmitStats(addDeath(w, userId), userId)
                 IN Emit(a, Event("score:update", None, None, 0, 0))
            ELSE w
      w2 == Emit(w1, Event("player:respawn", userId, None, RESPAWN_DELAY, 0))
  IN setTimeout(w2, Timer("respawn", userId, 0, 0, 0, None, RESPAWN_DELAY))

(* the callback of handleDeath's setTimeout; (x, y) is the random position *)
respawnCallback(w, userId, x, y) ==
  IF HasUser(w, userId)
  THEN LET w1 == [w EXCEPT !.users[userId].health = MAX_HEALTH,
                           !.users[userId].x = x,
                           !.users[userId].y = y,
                           !.users[userId].weaponType = "machineGun"]
           w2 == Emit(w1, EventAt("respawn", "health:update", userId, None,
                                  MAX_HEALTH, w1.users[userId].shield))
       IN Emit(w2, Event("cursor:update", userId, None, x, y))
  ELSE w

-----------------------------------------------------------------------------
(* mines.ts *)

Mine(id, x, y) == [id |-> id, x |-> x, y |-> y]

(* update / spawn: (x, y) is the random position *)
mineUpdate(w, x, y) ==
  IF w.mineWait = 0 /\ Len(w.mines) < maxMines
  THEN LET m == Mine(w.nextMineId, x, y)
           w1 == [w EXCEPT !.mines = Append(@, m),
                           !.nextMineId = @ + 1,
                           !.mineWait = mineSpawnInterval + 1]
       IN Emit(w1, Event("mine:spawn", None, None, m.id, 0))
  ELSE w

(* the id of the first mine in array order that P holds of; 0 when none *)
FirstMine(w, P(_)) ==
  LET i == FindIndex(w.mines, P) IN IF i = 0 THEN 0 ELSE w.mines[i].id

checkBulletCollision(w, bx, by) ==
  FirstMine(w, LAMBDA m : Dist2(bx, by, m.x, m.y) < mineRadius * mineRadius)

checkPlayerCollision(w, px, py, pr) ==
  FirstMine(w, LAMBDA m :
     Dist2(px, py, m.x, m.y) < (mineRadius + pr) * (mineRadius + pr))

(* The point of the segment from (x1, y1), length len, direction d, that   *)
(* is closest to (tx, ty): the projection parameter clamped to the segment *)
ClosestOnBeam(x1, y1, d, len, tx, ty) ==
  LET proj == (tx - x1) * Cos(d) + (ty - y1) * Sin(d)
      p == Max(0, Min(proj, len))
  IN << x1 + Cos(d) * p, y1 + Sin(d) * p >>

(* the ids of the mines a beam hits, in array order *)
checkLaserCollision(w, x1, y1, d, len) ==
  LET hit(m) == LET c == ClosestOnBeam(x1, y1, d, len, m.x, m.y)
                IN Dist2(m.x, m.y, c[1], c[2]) <
                     (mineRadius + LASER_WIDTH) * (mineRadius + LASER_WIDTH)
      hits == SelectSeq(w.mines, hit)
  IN [i \in 1 .. Len(hits) |-> hits[i].id]

(* The repository holds two sources of MineSystem: mines.ts, and part_011, *)
(* whose explodeMine pushes every ship in reach away from the mine before  *)
(* it damages it and gives no credit for a ship's own mine. variant is the *)
(* one the server is built from. The force is an integer: the distance is  *)
(* the whole part of the root, and the quotient is truncated toward zero.  *)
mineKnockback(w, id, m) ==
  IF w.variant # "part_011" THEN w
  ELSE CHOOSE r \in
         {IF distance = 0 THEN w
          ELSE LET dx == w.users[id].x - m.x
                   dy == w.users[id].y - m.y
                   force == knockbackStrength * (damageRadius - distance)
                   knockbackX == TruncDiv(dx * force,
                                          distance * damageRadius)
                   knockbackY == TruncDiv(dy * force,
                                          distance * damageRadius)
               IN Emit(applyKnockback(w, id, knockbackX, knockbackY),
                       Event("knockback", id, None, knockbackX, knockbackY)) :
          distance \in {d \in 0 .. damageRadius :
                          LET d2 == Dist2(w.users[id].x, w.users[id].y,
                                          m.x, m.y)
                          IN d * d <= d2 /\ (d + 1) * (d + 1) > d2}} : TRUE

(* explodeMine's damage pass over the ships, in Map order from index k *)
RECURSIVE MineDamage(_, _, _, _)
MineDamage(w, m, by, k) ==
  IF k > Len(w.order) THEN w
  ELSE LET id == w.order[k]
           u == w.users[id]
       IN IF Dist2(u.x, u.y, m.x, m.y) < damageRadius * damageRadius
          THEN LET oldHealth == u.health
                   newHealth == JsMax(0, JsSub(u.health, mineDamage))
                   w1 == updateHealth(mineKnockback(w, id, m), id, newHealth)
                   w2 == Emit(w1, EventAt("mine", "health:update", id, None,
                                          newHealth, 0))
                   isOwnMine == w.variant = "part_011" /\ by = id
                   w3 == IF JsGt(oldHealth, 0) /\ JsLe(newHealth, 0)
                         THEN handleDeath(w2, id,
                                          IF isOwnMine THEN None ELSE by)
                         ELSE w2
               IN MineDamage(w3, m, by, k + 1)
          ELSE MineDamage(w, m, by, k + 1)

(* checkChainReactions with the check run without the delay *)
checkChainReactionsAtOnce(w, x, y, r, by, root) ==
  setTimeout(w, [Timer("chain", None, x, y, r, by, 0) EXCEPT !.root = root])

(* checkChainReactions: the deferred check of the other mines *)
checkChainReactions(w, x, y, r, by, root) ==
  setTimeout(w, [Timer("chain", None, x, y, r, by, CHAIN_DELAY)
                   EXCEPT !.root = root])

(* the record of an explosion: the mine, the chain it belongs to, the time *)
(* and, for the comparison with the mines present, the mines at that time  *)
Exploded(w, m, by, site, root) ==
  [kind |-> "mine", mine |-> m.id, x |-> m.x, y |-> m.y, by |-> by,
   site |-> site, root |-> root, at |-> w.clock,
   present |-> {w.mines[i] : i \in 1 .. Len(w.mines)}]

(* site and root0 are not arguments of the code: site names the caller and *)
(* root0 the mine that started the chain (0 for a mine that starts one).   *)
explodeMine(w, mineId, by, site, root0) ==
  LET i == FindIndex(w.mines, LAMBDA m : m.id = mineId)
  IN IF i = 0 THEN w
     ELSE LET m == w.mines[i]
              root == IF root0 = 0 THEN m.id ELSE root0
              w0 == IF "mine" \in w.watch
                    THEN [w EXCEPT !.log = Append(@, Exploded(w, m, by, site,
                                                             root))]
                    ELSE w
              w1 == [w0 EXCEPT !.mines = RemoveAt(@, i)]
              w2 == Emit(w1, EventAt(site, "mine:explode", None, by, m.id, 0))
              w3 == MineDamage(w2, m, by, 1)
          IN checkChainReactions(w3, m.x, m.y, damageRadius, by, root)

(* the callback with the reach of the explosion taken without the radius   *)
(* of the mine it reaches                                                  *)
RECURSIVE ChainPassToCentre(_, _, _, _, _, _, _)
ChainPassToCentre(w, x, y, r, by, root, i) ==
  IF i < 1 THEN w
  ELSE LET m == w.mines[i]
       IN IF Dist2(m.x, m.y, x, y) < r * r
          THEN ChainPassToCentre(explodeMine(w, m.id, by, "chain", root), x,
                                 y, r, by, root, i - 1)
          ELSE ChainPassToCentre(w, x, y, r, by, root, i - 1)

(* the callback of checkChainReactions' setTimeout: the mines from the     *)
(* last index down to the first                                            *)
RECURSIVE ChainPass(_, _, _, _, _, _, _)
ChainPass(w, x, y, r, by, root, i) ==
  IF i < 1 THEN w
  ELSE LET m == w.mines[i]
       IN IF Dist2(m.x, m.y, x, y) < (r + mineRadius) * (r + mineRadius)
          THEN ChainPass(explodeMine(w, m.id, by, "chain", root), x, y, r, by,
                         root, i - 1)
          ELSE ChainPass(w, x, y, r, by, root, i - 1)

chainCallback(w, x, y, r, by, root) ==
  ChainPass(w, x, y, r, by, root, Len(w.mines))

-----------------------------------------------------------------------------
(* bullets.ts *)

(* a bullet id that no live bullet has (ids only tell live bullets apart) *)
FreshBulletId(w) ==
  CHOOSE n \in 1 .. Len(w.bullets) + 1 :
     \A i \in 1 .. Len(w.bullets) : w.bullets[i].id # n

(* the record of a shot: the arguments of addBullet *)
Fired(id, userId, x, y, d, isRocket) ==
  [kind |-> "bullet", id |-> id, userId |-> userId, x |-> x, y |-> y,
   d |-> d, isRocket |-> isRocket]

addBullet(w, id, userId, x, y, d, isRocket) ==
  LET speed == IF isRocket THEN ROCKET_SPEED ELSE BULLET_SPEED
      lifetime == IF isRocket THEN ROCKET_LIFETIME ELSE BULLET_LIFETIME
      w0 == IF "bullet" \in w.watch
            THEN [w EXCEPT !.log = Append(@, Fired(id, userId, x, y, d,
                                                   isRocket))]
            ELSE w
  IN [w0 EXCEPT !.bullets = Append(@,
        [id |-> id, userId |-> userId, x |-> x, y |-> y,
         vx |-> Cos(d) * speed, vy |-> Sin(d) * speed,
         lifetime |-> lifetime, isRocket |-> isRocket])]

(* one bullet's move and ageing, leaving by a wall and entering by the    *)
(* opposite one instead of bouncing                                        *)
BulletStepWrap(b) ==
  LET x1 == b.x + b.vx
      y1 == b.y + b.vy
  IN [b EXCEPT !.x = IF x1 < -HalfW THEN HalfW
                     ELSE IF x1 > HalfW THEN -HalfW ELSE x1,
               !.y = IF y1 < -HalfH THEN HalfH
                     ELSE IF y1 > HalfH THEN -HalfH ELSE y1,
               !.lifetime = b.lifetime - 1]

(* one bullet's move, bounce and ageing *)
BulletStep(b) ==
  LET x1 == b.x + b.vx
      y1 == b.y + b.vy
      hitX == x1 < -HalfW \/ x1 > HalfW
      hitY == y1 < -HalfH \/ y1 > HalfH
  IN [b EXCEPT !.x = IF x1 < -HalfW THEN -HalfW
                     ELSE IF x1 > HalfW THEN HalfW ELSE x1,
               !.vx = IF hitX THEN -b.vx ELSE b.vx,
               !.y = IF y1 < -HalfH THEN -HalfH
                     ELSE IF y1 > HalfH THEN HalfH ELSE y1,
               !.vy = IF hitY THEN -b.vy ELSE b.vy,
               !.lifetime = b.lifetime - 1]

bulletUpdate(w) ==
  LET moved == [i \in 1 .. Len(w.bullets) |-> BulletStep(w.bullets[i])]
  IN [w EXCEPT !.bullets = SelectSeq(moved, LAMBDA b : b.lifetime > 0)]

(* removeBullet leaving the bullet in the array *)
removeBulletKept(w, id) == w

removeBullet(w, id) ==
  LET i == FindIndex(w.bullets, LAMBDA b : b.id = id)
  IN IF i = 0 THEN w ELSE [w EXCEPT !.bullets = RemoveAt(@, i)]

-----------------------------------------------------------------------------
(* state.ts: bots *)

setBotHealth(w, i, health) ==
  [w EXCEPT !.bots[i].health = Max(0, Min(MAX_HEALTH, health))]

BotIndex(w, id) == FindIndex(w.bots, LAMBDA b : b.id = id)

-----------------------------------------------------------------------------
(* lasers.ts *)

removeLaser(w, userId) ==
  LET i == FindIndex(w.lasers, LAMBDA l : l.userId = userId)
  IN IF i = 0 THEN w ELSE [w EXCEPT !.lasers = RemoveAt(@, i)]

addLaser(w, userId, d) ==
  [removeLaser(w, userId) EXCEPT !.lasers =
     Append(@, [userId |-> userId, angle |-> d, duration |-> LASER_DURATION])]

checkLaserHit(bx, by, d, len, tx, ty, tr) ==
  LET c == ClosestOnBeam(bx, by, d, len, tx, ty)
  IN Dist2(tx, ty, c[1], c[2]) <= tr * tr

RECURSIVE LaserMines(_, _, _, _)
LaserMines(w, ids, k, by) ==
  IF k > Len(ids) THEN w
  ELSE LaserMines(explodeMine(w, ids[k], by, "laser", 0), ids, k + 1, by)

(* the beam of the ship `owner` against the ships, in Map order from k *)
RECURSIVE LaserShips(_, _, _, _)
LaserShips(w, owner, d, k) ==
  IF k > Len(w.order) THEN w
  ELSE LET id == w.order[k]
           t == w.users[id]
           o == w.users[owner]
       IN IF id = owner \/ JsLe(t.health, 0)
          THEN LaserShips(w, owner, d, k + 1)
          ELSE IF checkLaserHit(o.x, o.y, d, LASER_LENGTH, t.x, t.y,
                                LASER_TARGET_RADIUS)
          THEN LET newHealth == JsMax(0, JsSub(t.health, LASER_DAMAGE))
                   w1 == updateHealth(w, id, newHealth)
               IN LaserShips(Emit(w1, EventAt("laser", "health:update", id,
                                              None, newHealth, 0)),
                             owner, d, k + 1)
          ELSE LaserShips(w, owner, d, k + 1)

(* the beam against the bots, in array order from k *)
RECURSIVE LaserBots(_, _, _, _)
LaserBots(w, owner, d, k) ==
  IF k > Len(w.bots) THEN w
  ELSE LET b == w.bots[k]
           o == w.users[owner]
       IN IF b.health <= 0 THEN LaserBots(w, owner, d, k + 1)
          ELSE IF checkLaserHit(o.x, o.y, d, LASER_LENGTH, b.x, b.y,
                                LASER_TARGET_RADIUS)
          THEN LET newHealth == Max(0, b.health - LASER_DAMAGE)
                   w1 == setBotHealth(w, k, newHealth)
                   w2 == Emit(w1, Event("health:update", b.id, None,
                                        newHealth, 0))
                   (* read after setBotHealth has stored the new health *)
                   w3 == IF newHealth <= 0 /\ w2.bots[k].health > 0
                         THEN EmitStats(
                                Emit(addKill(w2, owner),
                                     Event("kill", b.id, owner, KILL_POINTS,
                                           0)),
                                owner)
                         ELSE w2
               IN LaserBots(w3, owner, d, k + 1)
          ELSE LaserBots(w, owner, d, k + 1)

(* LaserSystem.update: the beams from the last index down to the first *)
RECURSIVE laserPass(_, _)
laserPass(w, i) ==
  IF i < 1 THEN w
  ELSE LET l == w.lasers[i]
       IN IF ~HasUser(w, l.userId)
          THEN laserPass([w EXCEPT !.lasers = RemoveAt(@, i)], i - 1)
          ELSE LET u == w.users[l.userId]
                   d == u.rotation
                   w1 == [w EXCEPT !.lasers[i].angle = d]
                   ids == checkLaserCollision(w1, u.x, u.y, d, LASER_LENGTH)
                   w2 == LaserMines(w1, ids, 1, l.userId)
                   w3 == LaserShips(w2, l.userId, d, 1)
                   w4 == LaserBots(w3, l.userId, d, 1)
                   w5 == [w4 EXCEPT !.lasers[i].duration = @ - 1]
               IN laserPass(IF w5.lasers[i].duration <= 0
                            THEN [w5 EXCEPT !.lasers = RemoveAt(@, i)]
                            ELSE w5,
                            i - 1)

laserUpdate(w) == laserPass(w, Len(w.lasers))

-----------------------------------------------------------------------------
(* powerups.ts *)

(* an id that no live pickup has (ids only tell live pickups apart) *)
FreshPowerUpId(w) ==
  CHOOSE n \in 1 .. Len(w.powerups) + 1 :
     \A i \in 1 .. Len(w.powerups) : w.powerups[i].id # n

(* update / spawn: (x, y) the random position, type and weaponType the     *)
(* random kind                                                             *)
powerupUpdate(w, x, y, type, weaponType) ==
  IF w.powerupWait = 0 /\ Len(w.powerups) < maxPowerUps
  THEN LET p == [id |-> FreshPowerUpId(w), x |-> x, y |-> y, type |-> type,
                 weaponType |-> IF type = "weapon" THEN weaponType ELSE None]
           w1 == [w EXCEPT !.powerups = Append(@, p),
                           !.powerupWait = powerupSpawnInterval + 1]
       IN Emit(w1, Event("powerup:spawn", None, None, p.id, 0))
  ELSE w

(* the index of the first pickup the ship touches; 0 when none *)
checkCollection(w, px, py, pr) ==
  FindIndex(w.powerups, LAMBDA p :
     Dist2(px, py, p.x, p.y) <
        (powerupCollisionRadius + pr) * (powerupCollisionRadius + pr))

(* collectPowerUp without the splice *)
collectPowerUpKept(w, i, userId) ==
  Emit(w, Event("powerup:collect", userId, None, w.powerups[i].id, 0))

collectPowerUp(w, i, userId) ==
  Emit([w EXCEPT !.powerups = RemoveAt(@, i)],
       Event("powerup:collect", userId, None, w.powerups[i].id, 0))

-----------------------------------------------------------------------------
(* socket.ts: the game loop *)

(* the effect of a collected pickup p on the ship id *)
PickupEffect(w, id, p) ==
  IF p.type = "weapon" /\ p.weaponType # None
  THEN [w EXCEPT !.users[id].weaponType = p.weaponType]
  ELSE IF p.type = "health"
  THEN LET newHealth == JsMin(MAX_HEALTH,
                              JsAdd(w.users[id].health, HEALTH_PACK))
           w1 == updateHealth(w, id, newHealth)
       IN Emit(w1, EventAt("pickup", "health:update", id, None, newHealth,
                           w1.users[id].shield))
  ELSE IF p.type = "shield"
  THEN [w EXCEPT !.users[id].shield = SHIELD_HP]
  ELSE w

(* users.forEach: pickup collection and mine contact of the alive ships *)
RECURSIVE ContactPass(_, _)
ContactPass(w, k) ==
  IF k > Len(w.order) THEN w
  ELSE LET id == w.order[k]
           u == w.users[id]
       IN IF JsLe(u.health, 0) THEN ContactPass(w, k + 1)
          ELSE LET i == checkCollection(w, u.x, u.y, u.radius)
                   w1 == IF i = 0 THEN w
                         ELSE PickupEffect(collectPowerUp(w, i, id), id,
                                           w.powerups[i])
                   hitMineId == checkPlayerCollision(w1, u.x, u.y, u.radius)
                   w2 == IF hitMineId # 0
                         THEN explodeMine(w1, hitMineId, id, "contact", 0)
                         ELSE w1
               IN ContactPass(w2, k + 1)

(* the first ship in Map order that the bullet b hits; 0 when none *)
BulletShip(w, b) ==
  FindIndex(w.order, LAMBDA id :
     /\ ~JsLe(w.users[id].health, 0)
     /\ b.userId # id
     /\ Dist2(b.x, b.y, w.users[id].x, w.users[id].y)
          <= USER_RADIUS * USER_RADIUS)

(* the first bot in array order that the bullet b hits; 0 when none *)
BulletBot(w, b) ==
  FindIndex(w.bots, LAMBDA bot :
     /\ b.userId # bot.id
     /\ ~(bot.health <= 0)
     /\ Dist2(b.x, b.y, bot.x, bot.y) <= BOT_RADIUS * BOT_RADIUS)

(* the record of a collision: the bullet, where it is, and what it hit *)
Struck(w, b, what, target) ==
  IF "hit" \in w.watch
  THEN [w EXCEPT !.log = Append(@, [kind |-> "hit", bullet |-> b.id,
                                    x |-> b.x, y |-> b.y, what |-> what,
                                    target |-> target])]
  ELSE w

(* the body of bullets.forEach for one bullet *)
BulletCollide(w, b) ==
  LET hitMineId == checkBulletCollision(w, b.x, b.y)
      k == BulletShip(w, b)
      j == BulletBot(w, b)
  IN IF hitMineId # 0
     THEN removeBullet(explodeMine(Struck(w, b, "mine", hitMineId), hitMineId,
                                   b.userId, "bullet", 0), b.id)
     ELSE IF k # 0
     THEN LET id == w.order[k]
              w1 == removeBullet(Struck(w, b, "ship", id), b.id)
              newHealth == applyDamageResult(w1, id, BULLET_DAMAGE)
              w2 == applyDamage(w1, id, BULLET_DAMAGE)
              w3 == Emit(w2, EventAt("bullet", "health:update", id, None,
                                     newHealth, w2.users[id].shield))
          IN IF newHealth = 0 THEN handleDeath(w3, id, b.userId) ELSE w3
     ELSE IF j # 0
     THEN LET bot == w.bots[j]
              w1 == removeBullet(Struck(w, b, "bot", bot.id), b.id)
              newHealth == Max(0, bot.health - BULLET_DAMAGE)
              w2 == setBotHealth(w1, j, newHealth)
              w3 == Emit(w2, EventAt("bullet", "health:update", bot.id, None,
                                     newHealth, 0))
          IN IF newHealth <= 0 /\ HasUser(w3, b.userId)
             THEN EmitStats(
                    Emit(addKill(w3, b.userId),
                         Event("kill", bot.id, b.userId, KILL_POINTS, 0)),
                    b.userId)
             ELSE w3
     ELSE w

(* bullets.forEach over the live array: the indices 1 .. len0 of the array *)
(* as it is when each is reached; an index past the end is skipped         *)
RECURSIVE BulletPass(_, _, _)
BulletPass(w, k, len0) ==
  IF k > len0 THEN w
  ELSE IF k > Len(w.bullets) THEN BulletPass(w, k + 1, len0)
  ELSE BulletPass(BulletCollide(w, w.bullets[k]), k + 1, len0)

(* the cursor:update of every ship that still has velocity *)
RECURSIVE VelocityBroadcast(_, _)
VelocityBroadcast(w, k) ==
  IF k > Len(w.order) THEN w
  ELSE LET id == w.order[k]
           u == w.users[id]
       IN VelocityBroadcast(
            IF u.vx # 0 \/ u.vy # 0
            THEN Emit(w, Event("cursor:update", id, None, u.x, u.y))
            ELSE w,
            k + 1)

(* one pass of the setInterval callback; the arguments are its random      *)
(* draws: the position of a spawned mine, and the position and kind of a   *)
(* spawned pickup                                                          *)
gameLoop(w, mx, my, px, py, ptype, pweapon) ==
  LET w1 == mineUpdate(w, mx, my)
      w2 == powerupUpdate(w1, px, py, ptype, pweapon)
      w3 == bulletUpdate(w2)
      w4 == laserUpdate(w3)
      w5 == updatePhysics(w4)
      w6 == VelocityBroadcast(w5, 1)
      w7 == ContactPass(w6, 1)
  IN BulletPass(w7, 1, Len(w7.bullets))

-----------------------------------------------------------------------------
(* socket.ts: connection, game events, disconnect *)

(* the connection handler after its await: the label of the ship is the   *)
(* name the hub has found, if it has found one                             *)
nameFound(w, id, playerName) ==
  IF playerName # None /\ HasUser(w, id)
  THEN [w EXCEPT !.users[id].label = << playerName, 0 >>]
  ELSE w

(* the rest of the connection handler, from player:info on: the events to  *)
(* the new socket and the registration of its game handlers                *)
finishConnection(w, id) ==
  LET w1 == Emit(w, Event("player:info", id, id, 0, 0))
      cursors == (DOMAIN w1.users \ {id})
                   \cup {w1.bots[i].id : i \in 1 .. Len(w1.bots)}
      w2 == Emit(w1, Event("cursors:sync", None, id, cursors, 0))
  IN [w2 EXCEPT !.ready = @ \cup {id}]

(* the connection handler up to its first await (or its end, with no key) *)
onConnection(w, id, playerKey) ==
  LET w1 == [addUser(w, id, playerKey) EXCEPT !.sockets = @ \cup {id},
                                             !.used = @ \cup {id}]
  IN IF playerKey # None
     THEN [w1 EXCEPT !.pending = @ \cup {id}]
     ELSE finishConnection(w1, id)

(* the socket id leaves; its disconnect handler runs if it is registered *)
disconnectSocket(w, id) ==
  LET w1 == [w EXCEPT !.sockets = @ \ {id}]
  IN IF id \in w.ready
     THEN Emit(removeUser(w1, id), Event("user:left", id, None, 0, 0))
     ELSE w1

RECURSIVE disconnectSockets(_, _)
disconnectSockets(w, ids) ==
  IF ids = {} THEN w
  ELSE LET id == CHOOSE i \in ids : TRUE
       IN disconnectSockets(disconnectSocket(w, id), ids \ {id})

Alive(w, id) == HasUser(w, id) /\ ~JsLe(w.users[id].health, 0)

onCursorMove(w, id, x, y, rotation) ==
  IF ~IsNumber(x) \/ ~IsNumber(y) THEN w
  ELSE IF ~Alive(w, id) THEN w
  ELSE LET clampedX == JsMax(-HalfW, JsMin(x, HalfW))
           clampedY == JsMax(-HalfH, JsMin(y, HalfH))
           w1 == updateCursor(w, id, clampedX, clampedY, rotation)
       IN Emit(w1, Event("cursor:update", id, None, x, y))

(* bullet:shoot without its bullet:spawn *)
onBulletShootUnannounced(w, id, x, y, d, isRocket) ==
  IF ~Alive(w, id) THEN w
  ELSE addBullet(w, FreshBulletId(w), id, x, y, d, isRocket)

onBulletShoot(w, id, x, y, d, isRocket) ==
  IF ~Alive(w, id) THEN w
  ELSE LET bulletId == FreshBulletId(w)
           w1 == addBullet(w, bulletId, id, x, y, d, isRocket)
           vx == Cos(d) * bulletSpeed
           vy == Sin(d) * bulletSpeed
       IN Emit(w1, Event("bullet:spawn", id, None, bulletId, << vx, vy >>))

onLaserShoot(w, id, d) ==
  IF ~Alive(w, id) THEN w ELSE addLaser(w, id, d)

onHealthDamage(w, userId, health, attackerId) ==
  IF ~HasUser(w, userId) THEN w
  ELSE LET w1 == updateHealth(w, userId, health)
           newHealth == w1.users[userId].health
           w2 == Emit(w1, EventAt("client", "health:update", userId, None,
                                  newHealth, 0))
       IN IF JsLe(newHealth, 0) THEN handleDeath(w2, userId, attackerId)
          ELSE w2

(* admin:kickAll: the handler takes no argument, so a token is not read *)
onKickAll(w, token) ==
  setTimeout(w, Timer("kickAll", None, 0, 0, 0, None, KICK_DELAY))

-----------------------------------------------------------------------------
(* socket.ts: the admin channel *)

isAuthorized(token) == token # None /\ token # "" /\ token = ADMIN_PASSWORD

Unauthorized(w, s) == Emit(w, Event("admin:error", None, s, 0, 0))

(* updateSettings spreading the patch over the initial settings *)
updateSettingsReset(w, patch) ==
  [w EXCEPT !.settings = [k \in DOMAIN w.settings \cup DOMAIN patch |->
                            IF k \in DOMAIN patch THEN patch[k]
                            ELSE IF k = "botSpeed" THEN 4
                            ELSE IF k = "botCount" THEN 5
                            ELSE IF k = "botHealth" THEN 30
                            ELSE 100]]

updateSettings(w, patch) ==
  [w EXCEPT !.settings = [k \in DOMAIN w.settings \cup DOMAIN patch |->
                            IF k \in DOMAIN patch THEN patch[k]
                            ELSE w.settings[k]]]

BotIds == {"b1", "b2", "b3"}

(* state.ts addBot: (x, y) and heading are its random draws *)
addBot(w, initialHealth, x, y, heading) ==
  LET id == CHOOSE b \in BotIds : \A i \in 1 .. Len(w.bots) : w.bots[i].id # b
  IN [w EXCEPT !.bots = Append(@, [id |-> id, x |-> x, y |-> y,
                                   health |-> initialHealth,
                                   heading |-> heading, respawnAt |-> 0])]

removeBot(w, id) ==
  [w EXCEPT !.bots = SelectSeq(@, LAMBDA b : b.id # id)]

onAdminGetPlayers(w, s, token) ==
  IF ~isAuthorized(token) THEN Unauthorized(w, s)
  ELSE Emit(w, Event("admin:players", None, s, 0, 0))

onAdminGetBots(w, s, token) ==
  IF ~isAuthorized(token) THEN Unauthorized(w, s)
  ELSE Emit(w, Event("admin:bots", None, s, 0, 0))

onAdminAddBot(w, s, token, x, y, heading) ==
  IF ~isAuthorized(token) THEN Unauthorized(w, s)
  ELSE LET w1 == addBot(w, w.settings.botHealth, x, y, heading)
           w2 == updateSettings(w1, [botCount |-> w1.settings.botCount + 1])
           w3 == Emit(w2, Event("admin:bots", None, s, 0, 0))
       IN Emit(w3, Event("admin:addBot:ok", None, s, 0, 0))

onAdminRemoveAllBots(w, s, token) ==
  IF ~isAuthorized(token) THEN Unauthorized(w, s)
  ELSE LET w1 == updateSettings([w EXCEPT !.bots = << >>], [botCount |-> 0])
           w2 == Emit(w1, Event("admin:bots", None, None, 0, 0))
       IN Emit(w2, Event("admin:removeAllBots:ok", None, s, 0, 0))

onAdminRemoveBot(w, s, token, id) ==
  IF ~isAuthorized(token) THEN Unauthorized(w, s)
  ELSE IF BotIndex(w, id) = 0
  THEN Emit(w, Event("admin:removeBot:error", id, s, 0, 0))
  ELSE LET w1 == removeBot(w, id)
           w2 == updateSettings(w1,
                    [botCount |-> Max(0, w1.settings.botCount - 1)])
           w3 == Emit(w2, Event("admin:bots", None, s, 0, 0))
       IN Emit(w3, Event("admin:removeBot:ok", id, s, 0, 0))

onAdminKickPlayer(w, s, token, id) ==
  IF ~isAuthorized(token) THEN Unauthorized(w, s)
  ELSE IF BotIndex(w, id) # 0
  THEN Emit(w, Event("admin:kickPlayer:error", id, s, 0, 0))
  ELSE IF ~HasUser(w, id)
  THEN Emit(w, Event("admin:kickPlayer:error", id, s, 0, 0))
  ELSE IF id \notin w.sockets
  THEN Emit(removeUser(w, id), Event("admin:kickPlayer:error", id, s, 0, 0))
  ELSE Emit(disconnectSocket(w, id), Event("admin:kickPlayer:ok", id, s, 0, 0))

(* the callbacks of the two setInterval of 500 ms: io.emit to every socket *)
botsRefresh(w) == Emit(w, Event("admin:bots", None, None, 0, 0))

playersRefresh(w) == Emit(w, Event("admin:players", None, None, 0, 0))

onAdminGetSettings(w, s, token) ==
  IF ~isAuthorized(token) THEN Unauthorized(w, s)
  ELSE Emit(w, EventAt("get", "admin:settings", None, s, w.settings, 0))

onAdminUpdateSettings(w, s, token, patch) ==
  IF ~isAuthorized(token) THEN Unauthorized(w, s)
  ELSE LET v == updateSettings(w, patch)
       IN Emit(v, EventAt("update", "admin:settings", None, s, v.settings, 0))

-----------------------------------------------------------------------------
(* bots.ts: the bot system. Date.now() is the clock; a heading is a number *)
(* of quarter turns, like the direction of a bullet.                       *)

BOT_RESPAWN_DELAY == 3000
botPadding == 50

setBotPosition(w, i, x, y) == [w EXCEPT !.bots[i].x = x, !.bots[i].y = y]

setBotHeading(w, i, heading) == [w EXCEPT !.bots[i].heading = heading % 4]

(* an exception that nothing catches: the callback stops where it is and   *)
(* the process ends, no callback runs after it                             *)
Throw(w, what) ==
  [Emit(w, EventAt(what, "uncaughtException", None, None, 0, 0)) EXCEPT
     !.fuel = 1]

Thrown(w) == \E i \in 1 .. Len(w.out) : w.out[i].ev = "uncaughtException"

(* while (bots.length < s.botCount) addBot(s.botHealth); (x, y) and heading *)
(* are addBot's random draws. The loop is cut off above MaxBots.            *)
RECURSIVE botsFill(_, _, _, _, _)
botsFill(w, s, x, y, heading) ==
  IF Len(w.bots) < s.botCount /\ Len(w.bots) <= MaxBots
  THEN botsFill(addBot(w, s.botHealth, x, y, heading), s, x, y, heading)
  ELSE w

(* while (bots.length > s.botCount) removeBot(latest[latest.length - 1].id) *)
(* : with no bot left, latest[-1] is undefined and reading its id throws    *)
RECURSIVE botsTrim(_, _)
botsTrim(w, s) ==
  IF ~(Len(w.bots) > s.botCount) THEN w
  ELSE IF Len(w.bots) = 0 THEN Throw(w, "TypeError")
  ELSE botsTrim(removeBot(w, w.bots[Len(w.bots)].id), s)

(* the branch of bots.forEach for a dead bot; (rx, ry) is the random       *)
(* position of a respawn                                                   *)
botRespawn(w, s, k, rx, ry) ==
  IF w.bots[k].respawnAt = 0
  THEN [w EXCEPT !.bots[k].respawnAt = w.clock + BOT_RESPAWN_DELAY]
  ELSE IF w.clock >= w.bots[k].respawnAt
  THEN [setBotPosition(setBotHealth(w, k, s.botHealth), k, rx, ry) EXCEPT
          !.bots[k].respawnAt = 0]
  ELSE w

(* the rest of bots.forEach, for a live bot: jitter is the factor of the   *)
(* speed, turn the change of heading (less than a quarter turn in the      *)
(* code, so 0 here), shoot the draw of the random shot                     *)
botMove(w, s, k, jitter, turn, shoot) ==
  LET bot == w.bots[k]
      minX == -HalfW + botPadding
      maxX == HalfW - botPadding
      minY == -HalfW + botPadding
      maxY == HalfW - botPadding
      speedJitter == s.botSpeed * jitter
      h1 == (bot.heading + turn) % 4
      cx == Min(Max(bot.x, minX), maxX)
      cy == Min(Max(bot.y, minY), maxY)
      nx0 == cx + Cos(h1) * speedJitter
      ny0 == cy + Sin(h1) * speedJitter
      h2 == IF nx0 < minX \/ nx0 > maxX THEN (2 - h1) % 4 ELSE h1
      nx == Min(Max(nx0, minX), maxX)
      h3 == IF ny0 < minY \/ ny0 > maxY THEN (-h2) % 4 ELSE h2
      ny == Min(Max(ny0, minY), maxY)
      w1 == setBotPosition(setBotHeading(w, k, h3), k, nx, ny)
      w2 == Emit(w1, EventAt("bot", "cursor:update", bot.id, None, nx, ny))
  IN IF shoot
     THEN LET bulletId == FreshBulletId(w2)
              w3 == addBullet(w2, bulletId, bot.id, nx, ny, h3, FALSE)
              vx == Cos(h3) * botBulletSpeed
              vy == Sin(h3) * botBulletSpeed
          IN Emit(w3, EventAt("bot", "bullet:spawn", bot.id, None, bulletId,
                              << vx, vy >>))
     ELSE w2

(* bots.forEach from the index k *)
RECURSIVE botsForEach(_, _, _, _, _, _, _, _)
botsForEach(w, s, k, rx, ry, jitter, turn, shoot) ==
  IF k > Len(w.bots) THEN w
  ELSE botsForEach(IF w.bots[k].health <= 0
                   THEN botRespawn(w, s, k, rx, ry)
                   ELSE botMove(w, s, k, jitter, turn, shoot),
                   s, k + 1, rx, ry, jitter, turn, shoot)

(* BotSystem.tick, the callback of its setInterval *)
botTick(w, x, y, heading, rx, ry, jitter, turn, shoot) ==
  LET s == w.settings
      w1 == botsTrim(botsFill(w, s, x, y, heading), s)
  IN IF Thrown(w1) THEN w1
     ELSE botsForEach(w1, s, 1, rx, ry, jitter, turn, shoot)

-----------------------------------------------------------------------------
(* hub-api.ts and the admin:endGame handler *)

Score(u) == u.kills * 100 - u.deaths * 50

(* Array.prototype.sort with the comparator b.score - a.score, as an      *)
(* insertion sort of the first k entries of the Map: the sort is stable,   *)
(* an entry goes behind the entries that compare equal to it               *)
RECURSIVE SortedByScore(_, _)
SortedByScore(w, k) ==
  IF k = 0 THEN << >>
  ELSE LET board == SortedByScore(w, k - 1)
           id == w.order[k]
           n == Cardinality({j \in 1 .. Len(board) :
                               Score(w.users[board[j]]) - Score(w.users[id])
                                 >= 0})
       IN SubSeq(board, 1, n) \o << id >> \o SubSeq(board, n + 1, Len(board))

(* getLeaderboard with a sort that puts an entry before its equals *)
getLeaderboardUnstable(w) ==
  LET Before(a, b) ==
        \/ Score(w.users[a]) > Score(w.users[b])
        \/ /\ Score(w.users[a]) = Score(w.users[b])
           /\ \E i, j \in 1 .. Len(w.order) :
                 w.order[i] = a /\ w.order[j] = b /\ i > j
  IN SortSeq(w.order, Before)

(* getLeaderboard: the ids of the Map's entries, sorted *)
getLeaderboard(w) == SortedByScore(w, Len(w.order))

(* getUserRank: the 1-based index in the leaderboard; 0 for an id that is  *)
(* not in it                                                               *)
getUserRank(w, id) ==
  LET leaderboard == getLeaderboard(w)
  IN IF \E i \in 1 .. Len(leaderboard) : leaderboard[i] = id
     THEN CHOOSE i \in 1 .. Len(leaderboard) : leaderboard[i] = id
     ELSE 0

(* calculatePlacementScore reading the table from the rank, not rank - 1 *)
calculatePlacementScoreNext(rank, totalPlayers) ==
  IF rank <= 0 \/ totalPlayers = 0 THEN 0
  ELSE IF rank < 5 THEN << 100, 80, 60, 40, 20 >>[rank + 1]
  ELSE 20

calculatePlacementScore(rank, totalPlayers) ==
  IF rank <= 0 \/ totalPlayers = 0 THEN 0
  ELSE IF rank <= 5 THEN << 100, 80, 60, 40, 20 >>[rank]
  ELSE 20

(* the score submitScoreToHub posts *)
ClampScore(score) == Max(0, Min(100, score))

(* The for-loop of admin:endGame from the Map iterator's position (the ids *)
(* in inv.seen are behind it) up to the next await of submitScoreToHub,    *)
(* or to the reply after the last entry. inv.due (the ships with a key and *)
(* no submitted score when the command arrived) and inv.posted (the ships  *)
(* whose score it has sent) are records of the run, not variables of the   *)
(* code, and neither is inv.ranks, the ranks it has sent scores for.       *)
RECURSIVE endGameRun(_, _)
endGameRun(w, inv) ==
  LET k == FindIndex(w.order, LAMBDA i : i \notin inv.seen)
  IN IF k = 0
     THEN Emit(w, Event("admin:endGame:ok", None, inv.socket, inv.submitted,
                        inv.total))
     ELSE LET id == w.order[k]
              u == w.users[id]
              inv1 == [inv EXCEPT !.seen = @ \cup {id}]
          IN IF u.playerKey # None /\ ~u.scoreSubmitted
             THEN LET rank == getUserRank(w, id)
                      hubScore == calculatePlacementScore(rank,
                                                          inv.totalPlayers)
                  IN [w EXCEPT !.endGames = Append(@,
                        [inv1 EXCEPT !.total = @ + 1, !.cur = id,
                                     !.posted = @ \cup {id},
                                     !.ranks = Append(@, rank),
                                     !.key = u.playerKey,
                                     !.score = ClampScore(hubScore)])]
             ELSE endGameRun(w, inv1)

onAdminEndGame(w, s, token) ==
  IF ~isAuthorized(token) THEN Unauthorized(w, s)
  ELSE endGameRun(w, [socket |-> s, seen |-> {}, cur |-> None, key |-> None,
                      score |-> 0, totalPlayers |-> Len(w.order),
                      submitted |-> 0, failed |-> 0, total |-> 0,
                      due |-> {id \in DOMAIN w.users :
                                 /\ w.users[id].playerKey # None
                                 /\ ~w.users[id].scoreSubmitted},
                      posted |-> {}, ranks |-> << >>])

(* the record of a POST that has failed: the key, and the number of the    *)
(* other invocations that await the hub at that time                       *)
Failed(w, inv) ==
  IF "post" \in w.watch
  THEN [w EXCEPT !.log = Append(@, [kind |-> "failed", key |-> inv.key,
                                    others |-> Len(w.endGames)])]
  ELSE w

(* endGameResume marking the ship whatever the hub has answered *)
endGameResumeMarked(w, i, success) ==
  LET inv == w.endGames[i]
      w1 == [w EXCEPT !.endGames = RemoveAt(@, i)]
  IN IF success
     THEN endGameRun(
            [markScoreSubmitted(w1, inv.cur) EXCEPT
               !.hubPosts[inv.key] = @ + 1],
            [inv EXCEPT !.submitted = @ + 1])
     ELSE endGameRun(markScoreSubmitted(Failed(w1, inv), inv.cur),
                     [inv EXCEPT !.failed = @ + 1])

(* the continuation of the i-th awaiting invocation: the hub has answered  *)
endGameResume(w, i, success) ==
  LET inv == w.endGames[i]
      w1 == [w EXCEPT !.endGames = RemoveAt(@, i)]
  IN IF success
     THEN endGameRun(
            [markScoreSubmitted(w1, inv.cur) EXCEPT
               !.hubPosts[inv.key] = @ + 1],
            [inv EXCEPT !.submitted = @ + 1])
     ELSE endGameRun(Failed(w1, inv), [inv EXCEPT !.failed = @ + 1])

-----------------------------------------------------------------------------
(* Timers and time *)

(* the first pending timer that is due; 0 when none *)
DueTimer(w) == FindIndex(w.timers, LAMBDA t : t.left = 0)

(* the callback of the timer t; (x, y) is a respawn's random position *)
timerCallback(w, t, x, y) ==
  IF t.kind = "respawn" THEN respawnCallback(w, t.id, x, y)
  ELSE IF t.kind = "chain" THEN chainCallback(w, t.x, t.y, t.r, t.by, t.root)
  ELSE disconnectSockets(w, w.sockets)

(* d milliseconds pass *)
elapse(w, d) ==
  [w EXCEPT !.timers = [i \in 1 .. Len(w.timers) |->
                          [w.timers[i] EXCEPT !.left = @ - d]],
            !.mineWait = Max(0, @ - d),
            !.powerupWait = Max(0, @ - d),
            !.clock = IF w.watch = {} THEN @ ELSE @ + d]

(* the time to the next due timer or allowed spawn; 0 when nothing waits *)
NextEventIn(w) ==
  LET waits == {w.timers[i].left : i \in 1 .. Len(w.timers)}
                 \cup {w.mineWait, w.powerupWait}
                 \cup {w.bots[i].respawnAt - w.clock :
                         i \in {j \in 1 .. Len(w.bots) :
                                  w.bots[j].respawnAt > 0}}
      pos == {d \in waits : d > 0}
  IN IF pos = {} \/ 0 \in {w.timers[i].left : i \in 1 .. Len(w.timers)}
     THEN 0
     ELSE CHOOSE d \in pos : \A e \in pos : d <= e

-----------------------------------------------------------------------------
(* The actions: one per callback *)

Bounded(w) ==
  /\ Len(w.bullets) <= IF "pair" \in w.watch THEN MaxPassBullets
                       ELSE MaxBullets
  /\ Len(w.bots) <= MaxBots
  /\ Len(w.endGames) <= MaxEndGames

(* client/src/main.ts: the ids of the remote cursors a client holds, after *)
(* an event of the server. The client is the one that cursors:sync is sent *)
(* to; the other events reach every client, or every client but the ship   *)
(* they are about, which ignores them.                                     *)
clientApply(view, e) ==
  CASE e.ev = "cursors:sync" /\ e.by = view.client ->
         [view EXCEPT !.ids = @ \cup (e.val \ {view.client})]
    [] e.ev \in {"cursor:update", "user:joined"} /\ e.id # view.client ->
         [view EXCEPT !.ids = @ \cup {e.id}]
    [] e.ev = "user:left" -> [view EXCEPT !.ids = @ \ {e.id}]
    [] OTHER -> view

(* the clients after an event: the one that is sent its first cursors:sync *)
(* starts with no cursor                                                   *)
Received(views, e) ==
  LET vs == IF e.ev = "cursors:sync"
               /\ \A i \in 1 .. Len(views) : views[i].client # e.by
            THEN Append(views, [kind |-> "view", client |-> e.by, ids |-> {}])
            ELSE views
  IN [i \in 1 .. Len(vs) |-> clientApply(vs[i], e)]

RECURSIVE Deliver(_, _, _)
Deliver(views, evs, i) ==
  IF i > Len(evs) THEN views
  ELSE Deliver(Received(views, evs[i]), evs, i + 1)

(* the connected clients receive the events of the callback, in order *)
Views(w) ==
  IF "view" \in w.watch
  THEN [w EXCEPT !.log = SelectSeq(Deliver(@, w.out, 1),
                                   LAMBDA v : v.client \in w.sockets)]
  ELSE w

(* the callback whose result is w runs, if the bounds allow it *)
Step(w) ==
  /\ fuel > 0
  /\ \E v \in {Views(w)} : Bounded(v) /\ Commit([v EXCEPT !.fuel = @ - 1])

Live(id) == id \in sockets /\ id \in ready

Connect(id, playerKey) ==
  /\ id \notin used
  /\ Step(onConnection(World, id, playerKey))

LookupDone(id, playerName) ==
  /\ id \in pending
  /\ Step(finishConnection(nameFound([World EXCEPT !.pending = @ \ {id}],
                                     id, playerName), id))

Disconnect(id) ==
  /\ id \in sockets
  /\ Step(disconnectSocket(World, id))

CursorMove(id, x, y, rotation) ==
  /\ Live(id)
  /\ Step(onCursorMove(World, id, x, y, rotation))

BulletShoot(id, x, y, d, isRocket) ==
  /\ Live(id)
  /\ Step(onBulletShoot(World, id, x, y, d, isRocket))

LaserShoot(id, d) ==
  /\ Live(id)
  /\ Step(onLaserShoot(World, id, d))

HealthDamage(s, userId, health, attackerId) ==
  /\ Live(s)
  /\ Step(onHealthDamage(World, userId, health, attackerId))

KickAll(s, token) ==
  /\ Live(s)
  /\ Step(onKickAll(World, token))

AdminGetPlayers(s, token) ==
  s \in sockets /\ Step(onAdminGetPlayers(World, s, token))

AdminGetBots(s, token) ==
  s \in sockets /\ Step(onAdminGetBots(World, s, token))

AdminAddBot(s, token, x, y, heading) ==
  s \in sockets /\ Step(onAdminAddBot(World, s, token, x, y, heading))

AdminRemoveAllBots(s, token) ==
  s \in sockets /\ Step(onAdminRemoveAllBots(World, s, token))

AdminRemoveBot(s, token, id) ==
  s \in sockets /\ Step(onAdminRemoveBot(World, s, token, id))

AdminKickPlayer(s, token, id) ==
  s \in sockets /\ Step(onAdminKickPlayer(World, s, token, id))

AdminGetSettings(s, token) ==
  s \in sockets /\ Step(onAdminGetSettings(World, s, token))

AdminUpdateSettings(s, token, patch) ==
  s \in sockets /\ Step(onAdminUpdateSettings(World, s, token, patch))

AdminEndGame(s, token) ==
  s \in sockets /\ Step(onAdminEndGame(World, s, token))

HubResponse(i, success) ==
  /\ i \in 1 .. Len(endGames)
  /\ Step(endGameResume(World, i, success))

Tick(mx, my, px, py, ptype, pweapon) ==
  /\ fuel > 0
  /\ Step(gameLoop(World, mx, my, px, py, ptype, pweapon))

BotTick(x, y, heading, rx, ry, jitter, turn, shoot) ==
  /\ fuel > 0
  /\ Step(botTick(World, x, y, heading, rx, ry, jitter, turn, shoot))

BotsRefresh ==
  /\ fuel > 0
  /\ Step(botsRefresh(World))

PlayersRefresh ==
  /\ fuel > 0
  /\ Step(playersRefresh(World))

FireTimer(x, y) ==
  /\ DueTimer(World) # 0
  /\ LET i == DueTimer(World)
     IN Step(timerCallback([World EXCEPT !.timers = RemoveAt(@, i)],
                           timers[i], x, y))

Advance ==
  /\ NextEventIn(World) > 0
  /\ Step(elapse(World, NextEventIn(World)))

-----------------------------------------------------------------------------
(* The game: every callback, with small sets of inputs and random draws *)

(* the server after construction, with n callbacks to run *)
Start(n) ==
  [users |-> << >>, order |-> << >>, sockets |-> {}, used |-> {},
   pending |-> {}, ready |-> {}, bots |-> << >>,
   settings |-> [botSpeed |-> 4, botCount |-> 5,
                 botHealth |-> DEFAULT_BOT_HEALTH,
                 playerStartingHealth |-> MAX_HEALTH],
   bullets |-> << >>, mines |-> << >>, mineWait |-> 0, nextMineId |-> 1,
   powerups |-> << >>, powerupWait |-> 0, lasers |-> << >>, timers |-> << >>,
   endGames |-> << >>, hubPosts |-> [k \in {"k1", "k2", "k3", "k4"} |-> 0], fuel |-> n,
   out |-> << >>, watch |-> {}, clock |-> 0, log |-> << >>,
   variant |-> "mines.ts"]

(* the state is the world w *)
Holds(w) ==
  /\ users = w.users
  /\ order = w.order
  /\ sockets = w.sockets
  /\ used = w.used
  /\ pending = w.pending
  /\ ready = w.ready
  /\ bots = w.bots
  /\ settings = w.settings
  /\ bullets = w.bullets
  /\ mines = w.mines
  /\ mineWait = w.mineWait
  /\ nextMineId = w.nextMineId
  /\ powerups = w.powerups
  /\ powerupWait = w.powerupWait
  /\ lasers = w.lasers
  /\ timers = w.timers
  /\ endGames = w.endGames
  /\ hubPosts = w.hubPosts
  /\ fuel = w.fuel
  /\ out = w.out
  /\ watch = w.watch
  /\ clock = w.clock
  /\ log = w.log
  /\ variant = w.variant

Init == Holds(Start(MaxSteps))

KeyOf(id) ==
  CASE id = "u1" -> "k1" [] id = "u2" -> "k2" [] id = "u3" -> "k3"
    [] OTHER -> "k4"

Tokens == {ADMIN_PASSWORD, "guess", None}
MovePoints == {<< 0, 0 >>, << 200, 0 >>, << HalfW + 50, -HalfH - 50 >>}
ShotPoints == {<< -15, 0 >>, << 185, 0 >>}
HealthInputs == {0, 40, 150, NaN}
RespawnPoints == {<< 0, 0 >>, << -HalfW, HalfH - 1 >>}
MinePoints == {<< 200, 0 >>}
PowerUpPoints == {<< 0, 50 >>}
PowerUpKinds == {<< "weapon", "laser" >>, << "health", None >>,
                 << "shield", None >>}
BotPoints == {<< 0, 20 >>}
Patches == {[botHealth |-> 20], [botSpeed |-> 6, playerStartingHealth |-> 50],
            << >>}

(* The game: players connect without a key, move, shoot, report damage and  *)
(* leave; an administrator adds a bot; the loop and the timers run.        *)
NextGame ==
  \/ \E id \in UserIds : Connect(id, None)
  \/ \E id \in UserIds : Disconnect(id)
  \/ \E id \in UserIds, p \in MovePoints : CursorMove(id, p[1], p[2], 0)
  \/ \E id \in UserIds, p \in ShotPoints : BulletShoot(id, p[1], p[2], 0, FALSE)
  \/ \E id \in UserIds : LaserShoot(id, 0)
  \/ \E s \in UserIds, u \in UserIds, h \in HealthInputs,
        a \in UserIds \cup {None} : HealthDamage(s, u, h, a)
  \/ \E s \in UserIds, p \in BotPoints :
        AdminAddBot(s, ADMIN_PASSWORD, p[1], p[2], 0)
  \/ \E m \in MinePoints, p \in PowerUpPoints, k \in PowerUpKinds :
        Tick(m[1], m[2], p[1], p[2], k[1], k[2])
  \/ \E p \in RespawnPoints : FireTimer(p[1], p[2])
  \/ Advance

SpecGame == Init /\ [][NextGame]_vars

(* The admin channel: every admin command from every socket, with the      *)
(* password, a wrong token and no token.                                   *)
NextAdmin ==
  \/ \E id \in UserIds : Connect(id, None)
  \/ \E id \in UserIds : Disconnect(id)
  \/ \E s \in UserIds, t \in Tokens : KickAll(s, t)
  \/ \E s \in UserIds, t \in Tokens : AdminGetPlayers(s, t)
  \/ \E s \in UserIds, t \in Tokens : AdminGetBots(s, t)
  \/ \E s \in UserIds, t \in Tokens, p \in BotPoints :
        AdminAddBot(s, t, p[1], p[2], 0)
  \/ \E s \in UserIds, t \in Tokens : AdminRemoveAllBots(s, t)
  \/ \E s \in UserIds, t \in Tokens, b \in BotIds : AdminRemoveBot(s, t, b)
  \/ \E s \in UserIds, t \in Tokens, id \in UserIds \cup BotIds :
        AdminKickPlayer(s, t, id)
  \/ \E s \in UserIds, t \in Tokens : AdminGetSettings(s, t)
  \/ \E s \in UserIds, t \in Tokens, p \in Patches :
        AdminUpdateSettings(s, t, p)
  \/ \E s \in UserIds, t \in Tokens : AdminEndGame(s, t)
  \/ \E p \in RespawnPoints : FireTimer(p[1], p[2])
  \/ Advance

SpecAdmin == Init /\ [][NextAdmin]_vars

(* The end of a game: players with and without a key connect and leave,    *)
(* the administrator ends the game, the hub answers each score it is sent. *)
NextEndGame ==
  \/ \E id \in UserIds : \E k \in {None, KeyOf(id)} : Connect(id, k)
  \/ \E id \in UserIds, name \in {None, "Ada"} : LookupDone(id, name)
  \/ \E id \in UserIds : Disconnect(id)
  \/ \E s \in UserIds, t \in Tokens : AdminEndGame(s, t)
  \/ \E i \in 1 .. MaxEndGames, ok \in BOOLEAN : HubResponse(i, ok)

SpecEndGame == Init /\ [][NextEndGame]_vars

(* Kills: two players are connected, the administrator has added a bot    *)
(* that one bullet kills, and the loop has run once and spawned a mine and *)
(* a pickup. The players shoot bullets and rockets at each other, at the   *)
(* bot and at the mine, report damage with and without an attacker, and leave.                  *)
KillsStart ==
  LET a == onConnection(Start(MaxKillSteps), "u1", None)
      b == onConnection([a EXCEPT !.out = << >>, !.watch = {"hit"}], "u2",
                        None)
      c == onAdminUpdateSettings([b EXCEPT !.out = << >>], "u1",
                                 ADMIN_PASSWORD, [botHealth |-> BULLET_DAMAGE])
      d == onAdminAddBot([c EXCEPT !.out = << >>], "u1", ADMIN_PASSWORD,
                         0, 40, 0)
  IN gameLoop([d EXCEPT !.out = << >>], 200, 0, 0, 50, "weapon", "laser")

InitKills == \E w \in {KillsStart} : Holds(w)

KillShots == {<< -15, 0 >>, << -15, 20 >>, << -15, 50 >>, << 185, 0 >>}
KillHealths == {0, 40}

NextKills ==
  \/ \E id \in UserIds : Disconnect(id)
  \/ \E id \in UserIds, p \in KillShots, isRocket \in BOOLEAN :
        BulletShoot(id, p[1], p[2], 0, isRocket)
  \/ \E s \in UserIds, u \in UserIds, h \in KillHealths,
        a \in UserIds \cup {None} : HealthDamage(s, u, h, a)
  \/ \E m \in MinePoints, p \in PowerUpPoints, k \in PowerUpKinds :
        Tick(m[1], m[2], p[1], p[2], k[1], k[2])
  \/ \E p \in RespawnPoints : FireTimer(p[1], p[2])
  \/ Advance

SpecKills == InitKills /\ [][NextKills]_vars

(* Shots: two players at the centre and a bot of 10 of health at (0, 40),   *)
(* the only bot that the settings ask for; the loop has run once. The       *)
(* players shoot bullets and rockets, the bot system and the loop run.      *)
ShotsStart ==
  LET a == onConnection(Start(MaxShotSteps), "u1", None)
      b == onConnection([a EXCEPT !.out = << >>, !.watch = {"hit", "spawn"}],
                        "u2", None)
      c == onAdminUpdateSettings([b EXCEPT !.out = << >>], "u1",
                                 ADMIN_PASSWORD,
                                 [botHealth |-> BULLET_DAMAGE, botCount |-> 0])
      d == onAdminAddBot([c EXCEPT !.out = << >>], "u1", ADMIN_PASSWORD,
                         0, 40, 0)
  IN gameLoop([d EXCEPT !.out = << >>], 200, 0, 0, 50, "weapon", "laser")

InitShots == \E w \in {ShotsStart} : Holds(w)

NextShots ==
  \/ \E id \in UserIds, p \in KillShots, isRocket \in BOOLEAN :
        BulletShoot(id, p[1], p[2], 0, isRocket)
  \/ \E shoot \in BOOLEAN : BotTick(0, 40, 0, 0, 40, 1, 0, shoot)
  \/ Tick(200, 0, 0, 50, "weapon", "laser")

SpecShots == InitShots /\ [][NextShots]_vars

(* Pickups: two players are connected, both at the centre. They move to    *)
(* points in and out of reach of a pickup at (0, 50), report damage, and   *)
(* the loop runs and spawns pickups of every kind there; no mine is near.  *)
PickupMoves == {<< 0, 0 >>, << 0, 40 >>, << 500, 500 >>}
PickupHealths == {0, 40}

InitPickup ==
  \E a \in {onConnection(Start(MaxSteps), "u1", None)} :
  \E b \in {onConnection([a EXCEPT !.out = << >>], "u2", None)} : Holds(b)

NextPickup ==
  \/ \E id \in UserIds, p \in PickupMoves : CursorMove(id, p[1], p[2], 0)
  \/ \E id \in UserIds, h \in PickupHealths : HealthDamage(id, id, h, None)
  \/ \E m \in MinePoints, p \in PowerUpPoints, k \in PowerUpKinds :
        Tick(m[1], m[2], p[1], p[2], k[1], k[2])
  \/ Advance

SpecPickup == InitPickup /\ [][NextPickup]_vars

(* A fall: two players are connected, both at the centre. They report      *)
(* damage that leaves 2 of health or none and fire their beams, the loop   *)
(* runs, with its mine and its pickup far from them, time passes and the   *)
(* timers fire.                                                            *)
FallHealths == {0, 2}

NextFall ==
  \/ \E id \in UserIds, h \in FallHealths : HealthDamage(id, id, h, None)
  \/ \E id \in UserIds : LaserShoot(id, 0)
  \/ Tick(500, 700, -400, 300, "shield", None)
  \/ \E p \in RespawnPoints : FireTimer(p[1], p[2])
  \/ Advance

SpecFall == InitPickup /\ [][NextFall]_vars

(* The snapshots: players connect, every socket asks for the players and   *)
(* the bots and removes the bots, with the password, a wrong token and no  *)
(* token, and the two refresh intervals fire.                              *)
NextSnapshots ==
  \/ \E id \in UserIds : Connect(id, None)
  \/ \E s \in UserIds, t \in Tokens : AdminGetPlayers(s, t)
  \/ \E s \in UserIds, t \in Tokens : AdminGetBots(s, t)
  \/ \E s \in UserIds, t \in Tokens : AdminRemoveAllBots(s, t)
  \/ BotsRefresh
  \/ PlayersRefresh

SpecSnapshots == Init /\ [][NextSnapshots]_vars

(* Chains of mines: two players are connected and the loop has spawned, a  *)
(* spawn interval apart, mines in a row on the x axis; the next spawn is   *)
(* due shortly or a whole interval away. The explosions are recorded. The  *)
(* players shoot at the first and at the last mine, the loop and the       *)
(* timers run, and the loop spawns a further mine when one is due.         *)
RECURSIVE Lay(_, _)
Lay(w, xs) ==
  IF xs = << >> THEN w
  ELSE CHOOSE r \in
         {Lay(elapse(g, g.mineWait), Tail(xs)) :
            g \in {gameLoop(v, Head(xs), 0, 0, 50, "weapon", "laser") :
                     v \in {[w EXCEPT !.out = << >>]}}} : TRUE

Layouts == {<< 200, 400, 600 >>, << 200, 400 >>}
ChainWaits == {50, mineSpawnInterval + 1}
ChainSpawns == {<< 650, 0 >>}
ChainShots == {<< 185, 0 >>, << 585, 0 >>}

ChainStart(xs, wait) ==
  LET a == onConnection([Start(MaxChainSteps) EXCEPT
                           !.watch = {"mine", "bullet"}], "u1", None)
      b == onConnection([a EXCEPT !.out = << >>], "u2", None)
  IN CHOOSE r \in {[c EXCEPT !.mineWait = wait] :
                     c \in {Lay(v, xs) : v \in {b}}} : TRUE

InitChain ==
  \E xs \in Layouts, wait \in ChainWaits :
     \E w \in {ChainStart(xs, wait)} : Holds(w)

NextChain ==
  \/ \E id \in UserIds, p \in ChainShots :
        BulletShoot(id, p[1], p[2], 0, FALSE)
  \/ \E m \in ChainSpawns : Tick(m[1], m[2], 0, 50, "weapon", "laser")
  \/ \E p \in RespawnPoints : FireTimer(p[1], p[2])
  \/ Advance

SpecChain == InitChain /\ [][NextChain]_vars

(* Bullets at the walls: a player is connected and the shots are recorded. *)
(* The player fires bullets and rockets from points near the walls, in the *)
(* four directions, and the loop runs.                                     *)
BounceStart ==
  onConnection([Start(MaxBounceSteps) EXCEPT !.watch = {"bullet"}], "u1",
               None)

InitBounce == \E w \in {BounceStart} : Holds(w)

WallShots == {<< HalfW - 10, 0 >>, << HalfW - 20, 0 >>, << 10 - HalfW, 0 >>,
              << 0, HalfH - 10 >>, << HalfW - 10, 10 - HalfH >>}

NextBounce ==
  \/ \E id \in UserIds, p \in WallShots, d \in Dirs, isRocket \in BOOLEAN :
        BulletShoot(id, p[1], p[2], d, isRocket)
  \/ \E m \in MinePoints, p \in PowerUpPoints :
        Tick(m[1], m[2], p[1], p[2], "weapon", "laser")

SpecBounce == InitBounce /\ [][NextBounce]_vars

-----------------------------------------------------------------------------
(* The scores: four players have connected, with a key or without, and    *)
(* have made their kills. The administrator ends the game, once or again   *)
(* while the hub has not answered, the hub accepts or refuses each score,  *)
(* and a player leaves.                                                    *)
ScoreIds == << "u1", "u2", "u3", "u4" >>

RECURSIVE Credit(_, _, _)
Credit(w, id, n) == IF n = 0 THEN w ELSE Credit(addKill(w, id), id, n - 1)

RECURSIVE Debit(_, _, _)
Debit(w, id, n) == IF n = 0 THEN w ELSE Debit(addDeath(w, id), id, n - 1)

RECURSIVE Seat(_, _, _, _)
Seat(w, i, kills, keyed) ==
  IF i > Len(kills) THEN [w EXCEPT !.out = << >>]
  ELSE LET id == ScoreIds[i]
       IN CHOOSE r \in
            {Seat(Credit(b, id, kills[i]), i + 1, kills, keyed) :
               b \in {IF keyed[i]
                      THEN finishConnection([a EXCEPT !.pending = @ \ {id}],
                                            id)
                      ELSE a :
                        a \in {onConnection([w EXCEPT !.out = << >>], id,
                                            IF keyed[i] THEN KeyOf(id)
                                            ELSE None)}}} : TRUE

ScoreKills == {<< 6, 4, 2, 0 >>, << 0, 2, 4, 6 >>, << 2, 2, 0, 1 >>}
ScoreKeys == {<< TRUE, TRUE, TRUE, TRUE >>, << TRUE, FALSE, TRUE, TRUE >>}
ScoreDeaths == {0, 2}

(* four ships with their kills; the last one has died or not *)
InitScores ==
  \E kills \in ScoreKills, keyed \in ScoreKeys, deaths \in ScoreDeaths :
     \E v \in {Seat([Start(MaxScoreSteps) EXCEPT !.watch = {"post"}], 1,
                     kills, keyed)} :
     \E w \in {Debit(v, ScoreIds[4], deaths)} : Holds(w)

NextScores ==
  \/ AdminEndGame("u1", ADMIN_PASSWORD)
  \/ \E i \in 1 .. MaxEndGames, ok \in BOOLEAN : HubResponse(i, ok)
  \/ Disconnect("u3")

SpecScores == InitScores /\ [][NextScores]_vars

(* The ranks of an end of game: four seated ships; an administrator ends   *)
(* the game, the hub answers, and meanwhile the second ship kills the      *)
(* first or the third.                                                     *)
NextRanks ==
  \/ AdminEndGame("u1", ADMIN_PASSWORD)
  \/ \E i \in 1 .. MaxEndGames, ok \in BOOLEAN : HubResponse(i, ok)
  \/ \E u \in {"u1", "u3"} : HealthDamage("u1", u, 0, "u2")

SpecRanks == InitScores /\ [][NextRanks]_vars

-----------------------------------------------------------------------------
(* The ship set: players connect, move and leave; every connected client  *)
(* applies the events it is sent.                                          *)
ViewIds == {"u1", "u2", "u3"}

InitView == Holds([Start(MaxSteps) EXCEPT !.watch = {"view"}])

NextView ==
  \/ \E id \in ViewIds : Connect(id, None)
  \/ \E id \in ViewIds, p \in MovePoints : CursorMove(id, p[1], p[2], 0)
  \/ \E id \in ViewIds : Disconnect(id)

SpecView == InitView /\ [][NextView]_vars

(* The cursor: players connect, report a death and move to points inside   *)
(* and outside the map, to NaN, to the infinities and to no number.        *)
CursorPoints == {<< 200, 0 >>, << HalfW + 50, -HalfH - 50 >>, << NaN, 0 >>,
                 << 0, Undefined >>, << Infinity, -Infinity >>}

NextCursor ==
  \/ \E id \in UserIds : Connect(id, None)
  \/ \E id \in UserIds, p \in CursorPoints : CursorMove(id, p[1], p[2], 1)
  \/ \E id \in UserIds : HealthDamage(id, id, 0, None)

SpecCursor == Init /\ [][NextCursor]_vars

(* A beam and a bot: a player is connected, an administrator has set the   *)
(* health of new bots and added a bot at (0, 20), and the player has fired *)
(* its beam along the x axis. The player moves and fires, the loop runs.   *)
BeamHealths == {2, 3, DEFAULT_BOT_HEALTH}

InitBeam ==
  \E h \in BeamHealths, p \in BotPoints :
  \E a \in {onConnection(Start(MaxSteps), "u1", None)} :
  \E b \in {onAdminUpdateSettings([a EXCEPT !.out = << >>], "u1",
                                  ADMIN_PASSWORD, [botHealth |-> h])} :
  \E c \in {onAdminAddBot([b EXCEPT !.out = << >>], "u1", ADMIN_PASSWORD,
                          p[1], p[2], 0)} :
  \E d \in {onLaserShoot([c EXCEPT !.out = << >>], "u1", 0)} : Holds(d)

NextBeam ==
  \/ \E p \in MovePoints, r \in {0, 1} : CursorMove("u1", p[1], p[2], r)
  \/ LaserShoot("u1", 0)
  \/ \E m \in MinePoints, p \in PowerUpPoints, k \in PowerUpKinds :
        Tick(m[1], m[2], p[1], p[2], k[1], k[2])

SpecBeam == InitBeam /\ [][NextBeam]_vars

(* The bots: a player is connected, an administrator has asked for one bot *)
(* of 10 of health and the bot system has made it; in half of the cases    *)
(* the player has shot it dead. The bot system and the loop run, time      *)
(* passes, the player shoots, and the administrator changes the settings   *)
(* and adds and removes bots.                                              *)
BotPatches == {[botCount |-> 0], [botCount |-> -1], [botHealth |-> 150],
               [botHealth |-> 5]}

InitBots ==
  \E p \in BotPoints, r \in RespawnPoints, dead \in BOOLEAN :
  \E a \in {onConnection([Start(MaxBotSteps) EXCEPT !.watch = {"clock"}],
                         "u1", None)} :
  \E b \in {onAdminUpdateSettings([a EXCEPT !.out = << >>], "u1",
                                  ADMIN_PASSWORD,
                                  [botCount |-> 1, botHealth |-> 10])} :
  \E c \in {botTick([b EXCEPT !.out = << >>], p[1], p[2], 0, r[1], r[2], 1,
                    0, FALSE)} :
  \E d \in {onBulletShoot([c EXCEPT !.out = << >>], "u1", -15, 0, 0, FALSE)} :
  \E e \in {gameLoop([d EXCEPT !.out = << >>], 200, 0, -400, 300, "shield",
                     None)} :
     Holds(IF dead THEN e ELSE c)

NextBots ==
  \/ \E p \in BotPoints, r \in RespawnPoints, shoot \in BOOLEAN :
        BotTick(p[1], p[2], 0, r[1], r[2], 1, 0, shoot)
  \/ \E patch \in BotPatches :
        AdminUpdateSettings("u1", ADMIN_PASSWORD, patch)
  \/ \E p \in BotPoints : AdminAddBot("u1", ADMIN_PASSWORD, p[1], p[2], 0)
  \/ AdminRemoveBot("u1", ADMIN_PASSWORD, "b1")
  \/ AdminRemoveAllBots("u1", ADMIN_PASSWORD)
  \/ BulletShoot("u1", -15, 0, 0, FALSE)
  \/ Tick(200, 0, -400, 300, "shield", None)
  \/ Advance

SpecBots == InitBots /\ [][NextBots]_vars

(* A dead ship: two players are connected, one of them with 40 of health   *)
(* left, and the loop has run once and spawned a mine and a pickup; the    *)
(* server is built from part_011. The players move and shoot, the loop and *)
(* the timers run.                                                         *)
InitDead ==
  \E a \in {onConnection([Start(MaxSteps) EXCEPT !.variant = "part_011"],
                         "u1", None)} :
  \E b \in {onConnection([a EXCEPT !.out = << >>], "u2", None)} :
  \E c \in {onHealthDamage([b EXCEPT !.out = << >>], "u1", mineDamage,
                           None)} :
  \E d \in {gameLoop([c EXCEPT !.out = << >>], 200, 0, -400, 300, "shield",
                     None)} : Holds(d)

NextDead ==
  \/ \E id \in UserIds, p \in MovePoints : CursorMove(id, p[1], p[2], 0)
  \/ \E id \in UserIds, p \in ShotPoints : BulletShoot(id, p[1], p[2], 0, FALSE)
  \/ \E m \in MinePoints, p \in PowerUpPoints, k \in PowerUpKinds :
        Tick(m[1], m[2], p[1], p[2], k[1], k[2])
  \/ \E p \in RespawnPoints : FireTimer(p[1], p[2])
  \/ Advance

SpecDead == InitDead /\ [][NextDead]_vars

-----------------------------------------------------------------------------
(* Properties of the game *)

(* the events of a callback's output that P holds of *)
Events(evs, P(_)) == SelectSeq(evs, P)

(* the pending respawn timers of the ship id *)
Respawns(ts, id) == SelectSeq(ts, LAMBDA t : t.kind = "respawn" /\ t.id = id)

(* the ships that a step keeps *)
Staying == DOMAIN users \cap DOMAIN users'

(* C1: every ship has 0 <= health <= 100 and a stored position within the  *)
(* map: |x| <= MAP_WIDTH / 2 and |y| <= MAP_HEIGHT / 2, in every reachable *)
(* state.                                                                  *)
HealthAndPositionInRange ==
  \A id \in DOMAIN users :
     /\ JsLe(0, users[id].health) /\ JsLe(users[id].health, MAX_HEALTH)
     /\ Abs(users[id].x) <= HalfW
     /\ Abs(users[id].y) <= HalfH

(* C2: respawn fires exactly once per death. A step that takes a ship's    *)
(* health from above 0 to 0 emits exactly one player:respawn for it, 6000  *)
(* ms ahead, and creates exactly one respawn timer of 6000 ms; no          *)
(* player:respawn and no respawn timer is created for a ship whose respawn *)
(* is still pending; a respawn timer that fires resets the ship's health   *)
(* to 100 and its weapon to machineGun.                                    *)
RespawnOncePerDeath ==
  [][\A id \in Staying :
       LET announced == Events(out', LAMBDA e :
                                 e.ev = "player:respawn" /\ e.id = id)
           before == Len(Respawns(timers, id))
           after == Len(Respawns(timers', id))
           died == JsGt(users[id].health, 0) /\ users'[id].health = 0
       IN /\ died => /\ Len(announced) = 1
                      /\ announced[1].val = RESPAWN_DELAY
                      /\ after = before + 1
                      /\ Respawns(timers', id)[after].left = RESPAWN_DELAY
          /\ before > 0 => Len(announced) = 0 /\ after <= before
          /\ after < before => /\ users'[id].health = MAX_HEALTH
                               /\ users'[id].weaponType = "machineGun"
    ]_vars

(* the ship id is down: its health is 0, or a respawn is scheduled for it  *)
(* and has not run                                                         *)
Down(id) == users[id].health = 0 \/ Len(Respawns(timers, id)) > 0

(* a beam is created for the ship id in this step *)
LaserCreated(id) ==
  /\ \E i \in 1 .. Len(lasers') :
        lasers'[i].userId = id /\ lasers'[i].duration = LASER_DURATION
  /\ ~ \E i \in 1 .. Len(lasers) :
        lasers[i].userId = id /\ lasers[i].duration = LASER_DURATION

(* C4: from the moment a ship's health is 0 until its scheduled respawn,   *)
(* it receives no health:update that lowers its health, no bullet or beam  *)
(* is created for it, it collects no pickup, triggers no mine by contact   *)
(* and is the victim of no bullet.                                         *)
DeadShipIsInert ==
  [][\A id \in Staying :
       Down(id) /\ Len(Respawns(timers', id)) >= Len(Respawns(timers, id)) =>
         /\ Events(out', LAMBDA e : /\ e.ev = "health:update" /\ e.id = id
                                    /\ JsLt(e.val, users[id].health)) = << >>
         /\ Events(out', LAMBDA e : e.ev = "bullet:spawn" /\ e.id = id)
               = << >>
         /\ ~LaserCreated(id)
         /\ Events(out', LAMBDA e : e.ev = "powerup:collect" /\ e.id = id)
               = << >>
         /\ Events(out', LAMBDA e : /\ e.ev = "mine:explode"
                                    /\ e.site = "contact" /\ e.by = id)
               = << >>
         /\ Events(out', LAMBDA e : /\ e.ev = "health:update" /\ e.id = id
                                    /\ e.site = "bullet") = << >>
    ]_vars

(* the ship id is hit in this step: by a bullet, a mine explosion or a beam *)
Hit(id) ==
  Events(out', LAMBDA e : /\ e.ev = "health:update" /\ e.id = id
                          /\ e.site \in {"bullet", "mine", "laser"}) # << >>

(* C9: damage to a ship with shield > 0 is absorbed by the shield first,   *)
(* whatever the source (bullet, mine explosion, beam): a hit lowers the    *)
(* health of a shielded ship only when it has used the shield up. With     *)
(* shield 30 and health 100 a hit of 20 gives shield 10 and health 100,    *)
(* and a second hit of 20 gives shield 0 and health 90.                    *)
ShieldAbsorbsFirst ==
  /\ [](\A id \in DOMAIN users :
          users[id].shield = SHIELD_HP /\ users[id].health = MAX_HEALTH =>
             LET w1 == applyDamage(World, id, 20)
                 w2 == applyDamage(w1, id, 20)
             IN /\ w1.users[id].shield = 10 /\ w1.users[id].health = 100
                /\ w2.users[id].shield = 0 /\ w2.users[id].health = 90)
  /\ [][\A id \in Staying :
          /\ users[id].shield > 0
          /\ Hit(id)
          /\ Events(out', LAMBDA e : e.ev = "powerup:collect" /\ e.id = id)
                = << >>
          /\ JsLt(users'[id].health, users[id].health)
          => users'[id].shield = 0
       ]_vars

-----------------------------------------------------------------------------
(* Properties of the admin channel *)

(* the socket s sends some admin command with the token t *)
AdminCommand(s, t) ==
  \/ KickAll(s, t)
  \/ AdminGetPlayers(s, t)
  \/ AdminGetBots(s, t)
  \/ \E p \in BotPoints : AdminAddBot(s, t, p[1], p[2], 0)
  \/ AdminRemoveAllBots(s, t)
  \/ \E b \in BotIds : AdminRemoveBot(s, t, b)
  \/ \E id \in UserIds \cup BotIds : AdminKickPlayer(s, t, id)
  \/ AdminGetSettings(s, t)
  \/ \E p \in Patches : AdminUpdateSettings(s, t, p)
  \/ AdminEndGame(s, t)

(* C8: every admin command, admin:kickAll included, that comes without a   *)
(* token equal to ADMIN_PASSWORD is answered with admin:error and changes  *)
(* nothing: no ship, bot or setting is modified, no socket is              *)
(* disconnected and nothing is scheduled.                                  *)
UnauthorizedChangesNothing ==
  [][\A s \in UserIds, t \in Tokens \ {ADMIN_PASSWORD} :
       AdminCommand(s, t) =>
         /\ out' = << Event("admin:error", None, s, 0, 0) >>
         /\ UNCHANGED << users, order, sockets, bots, settings, timers,
                         endGames, hubPosts >>
    ]_vars

-----------------------------------------------------------------------------
(* Properties of the end of a game *)

(* C5: admin:endGame invoked twice, with no death in between, submits each *)
(* eligible ship's score to the hub at most once in total, whenever the    *)
(* second invocation arrives: the hub accepts at most one score per player *)
(* key.                                                                    *)
ScoreSubmittedOnce == \A k \in DOMAIN hubPosts : hubPosts[k] <= 1

-----------------------------------------------------------------------------
(* Properties of the kill credit *)

(* the player:killed events of this step that credit the ship a: it is the *)
(* attacker and not the victim                                             *)
Credits(a) ==
  Events(out', LAMBDA e : e.ev = "player:killed" /\ e.by = a /\ e.id # a)

(* the kill events of this step that credit the ship a with a bot *)
BotCredits(a) == Events(out', LAMBDA e : e.ev = "kill" /\ e.by = a)

-----------------------------------------------------------------------------
(* Properties of the chains of mines *)

(* the recorded explosions and shots, in the order they happened *)
Explosions == SelectSeq(log, LAMBDA e : e.kind = "mine")
Shots == SelectSeq(log, LAMBDA e : e.kind = "bullet")

(* two mines are linked: centre distance below mine radius + damageRadius *)
Linked(m, n) ==
  Dist2(m.x, m.y, n.x, n.y)
     < (mineRadius + damageRadius) * (mineRadius + damageRadius)

(* the mines of P connected to a mine of S through links *)
RECURSIVE Reach(_, _)
Reach(S, P) ==
  LET next == S \cup {m \in P : \E n \in S : Linked(m, n)}
  IN IF next = S THEN S ELSE Reach(next, P)

(* the ids of the mines exploded in the chain that the mine root started *)
ChainOf(root) ==
  {Explosions[i].mine : i \in {j \in 1 .. Len(Explosions) :
                                 Explosions[j].root = root}}

(* C6 as stated: the mines exploded as a consequence of one trigger are    *)
(* the mines connected to the triggered mine through links, taken over the *)
(* mines present at the trigger: never a mine outside that set, and all of *)
(* it once the chain has run out.                                          *)
ChainIsComponentAtTrigger ==
  \A i \in 1 .. Len(Explosions) :
     LET e == Explosions[i]
         component == Reach({m \in e.present : m.id = e.mine}, e.present)
         running == \E k \in 1 .. Len(timers) :
                       timers[k].kind = "chain" /\ timers[k].root = e.mine
     IN e.site # "chain" =>
          /\ ChainOf(e.mine) \subseteq {m.id : m \in component}
          /\ ~running => ChainOf(e.mine) = {m.id : m \in component}

(* the ids of the mines that this step's mine:explode events name *)
ExplodedNow ==
  {out'[i].val : i \in {j \in 1 .. Len(out') : out'[j].ev = "mine:explode"}}

(* the step is the callback of a chain timer: it explodes exactly the      *)
(* mines that are present now and linked to the exploded mine, for the     *)
(* same trigger                                                            *)
ChainStepExact ==
  (DueTimer(World) # 0 /\ \E p \in RespawnPoints : FireTimer(p[1], p[2])) =>
     LET t == timers[DueTimer(World)]
         reached == {mines[i].id : i \in {j \in 1 .. Len(mines) :
                        Linked(mines[j], t)}}
     IN t.kind = "chain" =>
          /\ ExplodedNow = reached
          /\ \A i \in 1 .. Len(out') :
                out'[i].ev = "mine:explode" => out'[i].by = t.by
          /\ {mines'[i].id : i \in 1 .. Len(mines')}
                = {mines[i].id : i \in 1 .. Len(mines)} \ reached

(* every mine:explode of the step is recorded, in order *)
ExplosionsRecorded ==
  LET evs == Events(out', LAMBDA e : e.ev = "mine:explode")
      new == SubSeq(Explosions', Len(Explosions) + 1, Len(Explosions'))
  IN /\ Len(new) = Len(evs)
     /\ \A i \in 1 .. Len(evs) : new[i].mine = evs[i].val

(* no mine explodes twice, and each explosion damages a ship in reach      *)
(* exactly once                                                            *)
ExplodesOnce ==
  \A i, j \in 1 .. Len(Explosions) :
     Explosions[i].mine = Explosions[j].mine => i = j

DamagesOnce ==
  Len(Events(out', LAMBDA e : e.ev = "health:update" /\ e.site = "mine"))
    = Cardinality({<< m, id >> \in ExplodedNow \X DOMAIN users :
         \E i \in Len(Explosions) + 1 .. Len(Explosions') :
            /\ Explosions'[i].mine = m
            /\ Dist2(users[id].x, users[id].y, Explosions'[i].x,
                     Explosions'[i].y) < damageRadius * damageRadius})

(* C6: the mines exploded as a consequence of one trigger are the mines    *)
(* connected to the triggered mine through links of centre distance below  *)
(* mine radius + damageRadius, each link taken over the mines present when *)
(* the deferred check of the exploded mine runs, 100 ms after it exploded; *)
(* each mine emits at most one mine:explode and applies its damage at most *)
(* once.                                                                   *)
ChainFollowsLinks ==
  /\ []ExplodesOnce
  /\ [][ChainStepExact /\ ExplosionsRecorded /\ DamagesOnce]_vars

(* a chain has taken in a mine that was spawned after its trigger *)
ChainFollowsLinksWitness ==
  \E i, j \in 1 .. Len(Explosions) :
     /\ Explosions[i].site # "chain"
     /\ Explosions[j].root = Explosions[i].mine
     /\ Explosions[j].mine \notin {m.id : m \in Explosions[i].present}

(* the scenario: the mines 1, 2 and 3 at 200, 400 and 600 and no other     *)
(* mine, one bullet fired, which has triggered the mine 1, and no other    *)
(* trigger                                                                 *)
ThreeMineScenario ==
  /\ nextMineId = 4
  /\ Len(Shots) = 1
  /\ Explosions # << >>
  /\ Explosions[1].mine = 1 /\ Explosions[1].site = "bullet"
  /\ {<< m.id, m.x, m.y >> : m \in Explosions[1].present}
       = {<< 1, 200, 0 >>, << 2, 400, 0 >>, << 3, 600, 0 >>}
  /\ \A i \in 2 .. Len(Explosions) : Explosions[i].site = "chain"

(* C7: in the scenario the mine 1 explodes at +0 ms, the mine 2 at +100 ms *)
(* and the mine 3 at +200 ms, each for the owner of the bullet, and there  *)
(* are exactly three explosions: never a fourth, and three once the time   *)
(* has passed.                                                             *)
ChainScenario ==
  ThreeMineScenario =>
    /\ Len(Explosions) <= 3
    /\ \A i \in 1 .. Len(Explosions) :
          /\ Explosions[i].mine = i
          /\ Explosions[i].at = Explosions[1].at + CHAIN_DELAY * (i - 1)
          /\ Explosions[i].by = Shots[1].userId
    /\ \A k \in 1 .. 3 :
          clock > Explosions[1].at + CHAIN_DELAY * (k - 1) =>
             Len(Explosions) >= k
    /\ (~ \E k \in 1 .. Len(timers) : timers[k].kind = "chain") =>
          Len(Explosions) = 3

(* the scenario has run to its end: three explosions and no timer left *)
ChainScenarioWitness ==
  /\ ThreeMineScenario
  /\ Len(Explosions) = 3
  /\ Explosions[3].at = Explosions[1].at + 2 * CHAIN_DELAY
  /\ ~ \E k \in 1 .. Len(timers) : timers[k].kind = "chain"

-----------------------------------------------------------------------------
(* Properties of the bullets at the walls *)

(* the scenario: one shot so far, a standard bullet from                   *)
(* (MAP_WIDTH / 2 - 10, 0) at angle 0, and the bullet is in flight         *)
BounceShot ==
  /\ Len(Shots) = 1
  /\ Shots[1].x = HalfW - 10 /\ Shots[1].y = 0
  /\ Shots[1].d = 0 /\ ~Shots[1].isRocket
  /\ Len(bullets) = 1

(* C10 as stated: spawned with speed 15, the bullet is at the wall         *)
(* x = MAP_WIDTH / 2 with vx = -15 after one update, and back at           *)
(* x = MAP_WIDTH / 2 - 10 after a second one.                              *)
BounceBackToStart ==
  BounceShot =>
    LET b == bullets[1]
    IN /\ b.lifetime = BULLET_LIFETIME => b.vx = 15
       /\ b.lifetime = BULLET_LIFETIME - 1 => b.x = HalfW /\ b.vx = -15
       /\ b.lifetime = BULLET_LIFETIME - 2 => b.x = HalfW - 10

(* C10: spawned with speed 15, the bullet is at the wall x = MAP_WIDTH / 2 *)
(* with vx = -15 after one update, and at x = MAP_WIDTH / 2 - 15, a whole  *)
(* step from the wall, after a second one.                                 *)
BounceFromWall ==
  BounceShot =>
    LET b == bullets[1]
    IN /\ b.lifetime = BULLET_LIFETIME => b.vx = 15
       /\ b.lifetime = BULLET_LIFETIME - 1 => b.x = HalfW /\ b.vx = -15
       /\ b.lifetime = BULLET_LIFETIME - 2 =>
             b.x = HalfW - 15 /\ b.vx = -15 /\ b.y = 0

(* the bullet of the scenario after its second update *)
BounceFromWallWitness ==
  BounceShot /\ bullets[1].lifetime = BULLET_LIFETIME - 2

-----------------------------------------------------------------------------
(* Properties of the bullet collisions *)

(* the collisions recorded in this step *)
StruckNow ==
  SelectSeq(SubSeq(log', Len(log) + 1, Len(log')), LAMBDA e : e.kind = "hit")

(* C11: a bullet whose collision with a ship, a bot or a mine is resolved  *)
(* is no longer in the bullet set, so a bullet hits at most one target     *)
(* over its life: the live bullets have different ids, every collision of  *)
(* a step is that of a bullet that was live before the step and is gone    *)
(* after it, no bullet collides twice in a step, and the step damages or   *)
(* triggers exactly one target per collision.                              *)
BulletSpentOnHit ==
  /\ [](\A i, j \in 1 .. Len(bullets) :
          bullets[i].id = bullets[j].id => i = j)
  /\ [][/\ \A i \in 1 .. Len(StruckNow) :
             /\ \E k \in 1 .. Len(bullets) : bullets[k].id = StruckNow[i].bullet
             /\ \A k \in 1 .. Len(bullets') :
                   bullets'[k].id # StruckNow[i].bullet
             /\ \A j \in 1 .. Len(StruckNow) :
                   StruckNow[j].bullet = StruckNow[i].bullet => i = j
         /\ Len(Events(out', LAMBDA e :
                  /\ e.site = "bullet"
                  /\ e.ev \in {"health:update", "mine:explode"}))
              = Len(StruckNow)
      ]_vars

(* a bullet in reach of a ship and of a bot at once has hit the ship, left *)
(* the bot whole, and is gone                                              *)
BulletSpentOnHitWitness ==
  /\ \E i \in 1 .. Len(log) :
        /\ log[i].kind = "hit" /\ log[i].what = "ship"
        /\ \E k \in 1 .. Len(bots) :
              /\ bots[k].health > 0
              /\ Dist2(log[i].x, log[i].y, bots[k].x, bots[k].y)
                   <= BOT_RADIUS * BOT_RADIUS
  /\ bullets = << >>
  /\ \E i \in 1 .. Len(out) : out[i].site = "bullet"

-----------------------------------------------------------------------------
(* Properties of the scores *)

(* the table of the placement scores *)
PlacementTable(rank) ==
  CASE rank <= 0 -> 0
    [] rank = 1 -> 100
    [] rank = 2 -> 80
    [] rank = 3 -> 60
    [] rank = 4 -> 40
    [] OTHER -> 20

(* an invocation of admin:endGame has come to a ship and awaits the hub in *)
(* this step: it is the last of the awaiting ones                          *)
Posting == endGames' # endGames /\ Len(endGames') >= Len(endGames)
              /\ endGames' # << >>

(* C12: the placement score is a function of the rank that matches the     *)
(* table (1 -> 100, 2 -> 80, 3 -> 60, 4 -> 40, 5 and more -> 20, 0 -> 0),  *)
(* for every number of players an invocation can see (one at least); the   *)
(* value posted to the hub is the score clamped to [0, 100], and it is the *)
(* table's value for the rank the ship has when it is posted. Scores are   *)
(* integers, which Math.floor leaves as they are.                          *)
PlacementMatchesTable ==
  /\ [](\A rank \in 0 .. MaxRank, n \in 1 .. MaxRank :
          calculatePlacementScore(rank, n) = PlacementTable(rank))
  /\ [](\A score \in -MaxRank .. 100 + MaxRank :
          ClampScore(score) = IF score < 0 THEN 0
                              ELSE IF score > 100 THEN 100 ELSE score)
  /\ [](\A i \in 1 .. Len(endGames) : endGames[i].totalPlayers >= 1)
  /\ [][Posting =>
          LET e == endGames'[Len(endGames')]
          IN e.score = PlacementTable(getUserRank(World', e.cur))]_vars

(* the score of the fourth of four ships awaits the hub's answer *)
PlacementMatchesTableWitness ==
  \E i \in 1 .. Len(endGames) :
     /\ endGames[i].score = 40
     /\ getUserRank(World, endGames[i].cur) = 4
     /\ Len(order) = 4

-----------------------------------------------------------------------------
(* Properties of the settings *)

(* the settings after a patch: the patch's keys from the patch, the others *)
(* as they were                                                            *)
Patched(old, patch, new) ==
  /\ DOMAIN new = DOMAIN old \cup DOMAIN patch
  /\ \A k \in DOMAIN patch : new[k] = patch[k]
  /\ \A k \in DOMAIN old \ DOMAIN patch : new[k] = old[k]

(* C13: an authorized admin:updateSettings leaves the settings patched     *)
(* (every key of the patch with the patch's value, every other key as it   *)
(* was) and answers with them; an authorized admin:getSettings changes no  *)
(* setting and answers with the settings as they are, so that the one      *)
(* following the other returns the patched settings.                       *)
SettingsPatched ==
  /\ [][\A s \in UserIds, p \in Patches :
          AdminUpdateSettings(s, ADMIN_PASSWORD, p) =>
            /\ Patched(settings, p, settings')
            /\ out' = << EventAt("update", "admin:settings", None, s,
                                 settings', 0) >>]_vars
  /\ [][\A s \in UserIds :
          AdminGetSettings(s, ADMIN_PASSWORD) =>
            /\ settings' = settings
            /\ out' = << EventAt("get", "admin:settings", None, s,
                                 settings, 0) >>]_vars

(* admin:getSettings answers with a patched bot health, a bot count that   *)
(* admin:addBot has raised and the other keys as they started              *)
SettingsPatchedWitness ==
  \E i \in 1 .. Len(out) :
     /\ out[i].ev = "admin:settings"
     /\ out[i].site = "get"
     /\ out[i].val = [botSpeed |-> 4, botCount |-> 6, botHealth |-> 20,
                      playerStartingHealth |-> 100]

-----------------------------------------------------------------------------
(* Properties of the ship set *)

(* C14: every connected client, having applied its cursors:sync and the    *)
(* cursor:update, user:joined and user:left events sent since, holds the   *)
(* ids that a cursors:sync sent to it now would carry: those of the ships  *)
(* of the world other than its own.                                        *)
ViewMatchesSync ==
  \A i \in 1 .. Len(log) :
     log[i].kind = "view" /\ log[i].client \in ready =>
        log[i].ids = DOMAIN users \ {log[i].client}

-----------------------------------------------------------------------------
(* Properties of the disconnection *)

(* C15: when a socket disconnects its ship leaves the world and user:left  *)
(* is broadcast for it, whether or not the lookup of its name is pending;  *)
(* a lookup that completes for a socket that has left changes no state.    *)
DisconnectRemovesShip ==
  /\ [][\A id \in UserIds :
          Disconnect(id) =>
            /\ id \notin DOMAIN users'
            /\ \E i \in 1 .. Len(out') :
                  out'[i].ev = "user:left" /\ out'[i].id = id]_vars
  /\ [][\A id \in UserIds, name \in {None, "Ada"} :
          LookupDone(id, name) /\ id \notin sockets =>
            UNCHANGED << users, order, sockets, ready >>]_vars

-----------------------------------------------------------------------------
(* Properties of the rockets *)

(* C16: the contact of a rocket with a ship of a player or with a mine is  *)
(* a radial explosion: every alive ship                                    *)
(* less than 150 units from the impact, the rocket's owner included, takes *)
(* damage (to its shield or its health) in the step of the contact.        *)
RocketExplodes ==
  [][\A i \in 1 .. Len(StruckNow) :
       \A k \in 1 .. Len(bullets) :
          (/\ bullets[k].id = StruckNow[i].bullet
           /\ bullets[k].isRocket
           /\ StruckNow[i].what \in {"ship", "mine"}) =>
            \A id \in DOMAIN users :
               (/\ users[id].health > 0
                /\ Dist2(StruckNow[i].x, StruckNow[i].y,
                         users[id].x, users[id].y) < 150 * 150
                /\ id \in DOMAIN users')
               => \/ users'[id].health < users[id].health
                  \/ users'[id].shield < users[id].shield]_vars

-----------------------------------------------------------------------------
(* Properties of the colors and labels *)

(* C17: with fewer than 15 ships in the world, any two ships have          *)
(* different colors and different labels.                                  *)
UniqueColorAndLabel ==
  Len(order) < Len(Colors) =>
    \A a, b \in DOMAIN users :
       a # b => /\ users[a].color # users[b].color
                /\ users[a].label # users[b].label

-----------------------------------------------------------------------------
(* Properties of the submission *)

(* the ships whose score admin:endGame has to submit, in the order of the  *)
(* world                                                                   *)
Eligible ==
  SelectSeq(order, LAMBDA id : users[id].playerKey # None
                               /\ ~users[id].scoreSubmitted)

(* C18: a POST that fails changes no ship and no score of the hub, so a    *)
(* scoreSubmitted that is false stays false; a flag becomes true only      *)
(* in the step in which the hub accepts the ship's POST; and an authorized *)
(* admin:endGame posts the score of the first ship whose flag is false, a  *)
(* ship whose POST has failed included.                                    *)
FailedPostIsRetried ==
  /\ [][\A i \in 1 .. MaxEndGames :
          HubResponse(i, FALSE) =>
            /\ users' = users /\ order' = order /\ hubPosts' = hubPosts
            /\ \A id \in DOMAIN users :
                  ~users[id].scoreSubmitted => ~users'[id].scoreSubmitted]_vars
  /\ [][\A id \in DOMAIN users \cap DOMAIN users' :
          ~users[id].scoreSubmitted /\ users'[id].scoreSubmitted =>
            \E i \in 1 .. Len(endGames) :
               endGames[i].cur = id /\ HubResponse(i, TRUE)]_vars
  /\ [][\A s \in DOMAIN users :
          AdminEndGame(s, ADMIN_PASSWORD) /\ Eligible # << >> =>
            /\ Len(endGames') = Len(endGames) + 1
            /\ endGames'[Len(endGames')].cur = Eligible[1]
            /\ endGames'[Len(endGames')].key = users[Eligible[1]].playerKey
       ]_vars

(* the hub has accepted the score of a ship whose earlier POST failed with *)
(* no other invocation in flight: a later admin:endGame has posted it      *)
FailedPostIsRetriedWitness ==
  \E id \in DOMAIN users :
     /\ users[id].scoreSubmitted
     /\ hubPosts[users[id].playerKey] = 1
     /\ \E i \in 1 .. Len(log) :
           /\ log[i].kind = "failed"
           /\ log[i].key = users[id].playerKey
           /\ log[i].others = 0

-----------------------------------------------------------------------------
(* Properties of the end of a game: the scores sent and the reply *)

(* the ship id has a key and no submitted score after the step *)
EligibleNext(id) ==
  /\ id \in DOMAIN users'
  /\ users'[id].playerKey # None
  /\ ~users'[id].scoreSubmitted

(* the step sends the score of a ship for an invocation that had passed    *)
(* the ships of seen before: the ship has a key and no submitted score,    *)
(* the ships passed over on the way to it have not, the score is that of   *)
(* the ship's rank, and the ship is counted                                *)
PostsNext(seen, total) ==
  LET e == endGames'[Len(endGames')]
  IN /\ EligibleNext(e.cur)
     /\ e.key = users'[e.cur].playerKey
     /\ \A id \in e.seen \ (seen \cup {e.cur}) : ~EligibleNext(id)
     /\ e.score = PlacementTable(getUserRank(World', e.cur))
     /\ e.total = total + 1
     /\ e.posted \ {e.cur} \subseteq seen
     /\ (\A i \in 1 .. 4 : /\ ScoreIds[i] \in DOMAIN users'
                           /\ users'[ScoreIds[i]].kills = 8 - 2 * i
                           /\ users'[ScoreIds[i]].deaths = 0)
           => \A i \in 1 .. 4 :
                 e.cur = ScoreIds[i] => e.score = 120 - 20 * i

(* the replies of the step *)
Replies == Events(out', LAMBDA e : e.ev = "admin:endGame:ok")

(* the step replies for an invocation that has counted submitted, failed   *)
(* and total and sent the scores of posted: the reply carries the counts,  *)
(* they add up, total is the number of the ships whose score was sent, and *)
(* these are the ships that had a key and no submitted score when the      *)
(* command arrived, but for those that have left or whose score another    *)
(* invocation has submitted                                                *)
RepliesNext(s, submitted, failed, total, due, posted) ==
  /\ Replies = << Event("admin:endGame:ok", None, s, submitted, total) >>
  /\ submitted + failed = total
  /\ total = Cardinality(posted)
  /\ \A id \in due \ posted :
        id \notin DOMAIN users' \/ users'[id].scoreSubmitted
  /\ \A id \in DOMAIN users' : ~EligibleNext(id) \/ id \in posted

(* C19 as amended: an authorized admin:endGame sends, for every ship that  *)
(* has a playerKey and scoreSubmitted = false when its loop reaches the    *)
(* ship, the placement score of the ship's rank (four keyed ships with     *)
(* 6, 4, 2 and 0 kills and no death get 100, 80, 60 and 40), marks the     *)
(* ship when the hub accepts the score, and replies admin:endGame:ok with  *)
(* total = the number of the scores it has sent and submitted + failed =   *)
(* total.                                                                  *)
EndGameSubmitsByRank ==
  /\ [][\A s \in UserIds \cup {ScoreIds[j] : j \in 1 .. 4} :
          AdminEndGame(s, ADMIN_PASSWORD) =>
            IF Len(endGames') > Len(endGames)
            THEN Replies = << >> /\ PostsNext({}, 0)
            ELSE RepliesNext(s, 0, 0, 0,
                             {id \in DOMAIN users : EligibleNext(id)}, {})
       ]_vars
  /\ [][\A i \in 1 .. Len(endGames), ok \in BOOLEAN :
          HubResponse(i, ok) =>
            LET inv == endGames[i]
                submitted == inv.submitted + IF ok THEN 1 ELSE 0
                failed == inv.failed + IF ok THEN 0 ELSE 1
            IN /\ ok /\ inv.cur \in DOMAIN users =>
                    users'[inv.cur].scoreSubmitted
               /\ IF Len(endGames') = Len(endGames)
                  THEN /\ Replies = << >>
                       /\ PostsNext(inv.seen, inv.total)
                       /\ endGames'[Len(endGames')].submitted = submitted
                       /\ endGames'[Len(endGames')].failed = failed
                  ELSE RepliesNext(inv.socket, submitted, failed, inv.total,
                                   inv.due, inv.posted)
       ]_vars

(* the reply of an invocation that has sent 100, 80, 60 and 40 for four    *)
(* keyed ships and seen the hub accept them all                            *)
EndGameSubmitsByRankWitness ==
  /\ \E i \in 1 .. Len(out) :
        /\ out[i].ev = "admin:endGame:ok"
        /\ out[i].val = 4 /\ out[i].aux = 4
  /\ \A i \in 1 .. 4 : /\ ScoreIds[i] \in DOMAIN users
                       /\ users[ScoreIds[i]].kills = 8 - 2 * i
                       /\ users[ScoreIds[i]].scoreSubmitted
                       /\ hubPosts[KeyOf(ScoreIds[i])] = 1

(* C19: the reply of admin:endGame carries as total the number of the      *)
(* ships that had a playerKey and scoreSubmitted = false when the command  *)
(* arrived.                                                                *)
EndGameTotalIsEligible ==
  [][\A i \in 1 .. Len(endGames), ok \in BOOLEAN :
       HubResponse(i, ok) /\ Len(endGames') < Len(endGames) =>
         \A k \in 1 .. Len(Replies) :
            Replies[k].aux = Cardinality(endGames[i].due)]_vars

-----------------------------------------------------------------------------
(* Properties of the dead ships *)

(* C20: a ship with health = 0 does not move: while its health stays 0,    *)
(* from its death to its respawn, no step (a cursor:move, the physics of   *)
(* the loop, the knockback of a mine's explosion) changes its position.    *)
DeadShipStaysPut ==
  [][\A id \in DOMAIN users \cap DOMAIN users' :
       users[id].health = 0 /\ users'[id].health = 0 =>
          users'[id].x = users[id].x /\ users'[id].y = users[id].y]_vars

-----------------------------------------------------------------------------
(* Properties of the rank *)

(* the ships that come before the ship id: a higher kills * 100 - deaths * *)
(* 50, or the same and an earlier connection                               *)
Ahead(id) ==
  {a \in DOMAIN users :
     LET pa == users[a].kills * 100 - users[a].deaths * 50
         pi == users[id].kills * 100 - users[id].deaths * 50
     IN \/ pa > pi
        \/ /\ pa = pi
           /\ \E i, j \in 1 .. Len(order) :
                 order[i] = a /\ order[j] = id /\ i < j}

-----------------------------------------------------------------------------
(* Properties of the cursor *)

(* the cursor:update events of the callback that has run *)
CursorUpdates == {i \in 1 .. Len(out') : out'[i].ev = "cursor:update"}

(* C22: the position that the cursor:update of an accepted cursor:move     *)
(* carries is the position that is stored, within the half-extents of the  *)
(* map.                                                                    *)
CursorUpdateIsClamped ==
  [][\A id \in UserIds, p \in CursorPoints \ {<< NaN, 0 >>} :
        CursorMove(id, p[1], p[2], 1) =>
          \A i \in CursorUpdates :
             /\ out'[i].val = users'[id].x /\ out'[i].aux = users'[id].y
             /\ -HalfW <= out'[i].val /\ out'[i].val <= HalfW
             /\ -HalfH <= out'[i].aux /\ out'[i].aux <= HalfH]_vars

Finite(a) == a \notin {NaN, Undefined, Infinity, -Infinity}

(* C23: a cursor:move whose x or y is NaN, an infinity or no number is     *)
(* dropped: the ships are as they were and no cursor:update goes out.      *)
CursorMoveDropsNonFinite ==
  [][\A id \in UserIds, p \in CursorPoints :
        (~Finite(p[1]) \/ ~Finite(p[2])) /\ CursorMove(id, p[1], p[2], 1) =>
          users' = users /\ CursorUpdates = {}]_vars

(* C24: the death of a ship is handled on the transition to 0 only: a      *)
(* health:damage of 0 for a ship whose health is 0 already counts no       *)
(* death, credits no kill and no points and emits no player:killed.        *)
DeathOnTransitionOnly ==
  [][\A s, u \in UserIds, a \in UserIds \cup {None} :
        /\ u \in DOMAIN users
        /\ users[u].health = 0
        /\ HealthDamage(s, u, 0, a)
        => /\ users'[u].deaths = users[u].deaths
           /\ \A id \in Staying : /\ users'[id].kills = users[id].kills
                                  /\ users'[id].points = users[id].points
           /\ \A i \in 1 .. Len(out') : out'[i].ev # "player:killed"]_vars

-----------------------------------------------------------------------------
(* Properties of the beams *)

(* the step is a pass of the game loop *)
LoopPass ==
  \E m \in MinePoints, p \in PowerUpPoints, k \in PowerUpKinds :
     Tick(m[1], m[2], p[1], p[2], k[1], k[2])

(* the owner of a beam has left or is dead *)
OwnerDown(l) ==
  l.userId \notin DOMAIN users \/ JsLe(users[l.userId].health, 0)

(* C25: a beam whose owner has left or is dead is removed by the next pass *)
(* of the loop and deals no damage: when every beam is such a beam, the    *)
(* pass leaves no beam of these owners and lowers no ship's health by a    *)
(* beam.                                                                   *)
DeadOwnerBeamRemoved ==
  [][LoopPass =>
       /\ \A i \in 1 .. Len(lasers) :
             OwnerDown(lasers[i]) =>
               \A j \in 1 .. Len(lasers') :
                  lasers'[j].userId # lasers[i].userId
       /\ (\A i \in 1 .. Len(lasers) : OwnerDown(lasers[i])) =>
             \A j \in 1 .. Len(out') :
                ~(out'[j].ev = "health:update" /\ out'[j].site = "laser")
    ]_vars

(* C26: when a beam takes a bot from a health above 0 to 0, the owner of   *)
(* the beam has one kill more, and one kill event for the bot and one      *)
(* stats:update for the owner go out.                                      *)
BeamKillCredited ==
  [][LoopPass =>
       \A k \in 1 .. Len(bots) :
          bots[k].health > 0 /\ bots'[k].health = 0 =>
            /\ users'["u1"].kills = users["u1"].kills + 1
            /\ Cardinality({i \in 1 .. Len(out') :
                              /\ out'[i].ev = "kill"
                              /\ out'[i].id = bots[k].id
                              /\ out'[i].by = "u1"}) = 1
            /\ Cardinality({i \in 1 .. Len(out') :
                              /\ out'[i].ev = "stats:update"
                              /\ out'[i].id = "u1"}) = 1
    ]_vars

-----------------------------------------------------------------------------
(* Properties of the bots *)

(* the step is a tick of the bot system *)
BotPass ==
  \E p \in BotPoints, r \in RespawnPoints, shoot \in BOOLEAN :
     BotTick(p[1], p[2], 0, r[1], r[2], 1, 0, shoot)

(* the step is an authorized admin:addBot, admin:removeBot or              *)
(* admin:removeAllBots                                                     *)
AdminBots ==
  \/ \E p \in BotPoints : AdminAddBot("u1", ADMIN_PASSWORD, p[1], p[2], 0)
  \/ AdminRemoveBot("u1", ADMIN_PASSWORD, "b1")
  \/ AdminRemoveAllBots("u1", ADMIN_PASSWORD)

(* C27: after a tick of the bot system there are settings.botCount bots,   *)
(* and an authorized admin:addBot, admin:removeBot or admin:removeAllBots  *)
(* keeps the number of bots equal to settings.botCount.                    *)
BotCountIsSetting ==
  [][/\ BotPass => Len(bots') = settings'.botCount
     /\ AdminBots /\ Len(bots) = settings.botCount =>
          Len(bots') = settings'.botCount]_vars

(* C28: the health of every bot is between 0 and settings.botHealth, also  *)
(* after the settings have lowered botHealth and after a bot has been made *)
(* or has respawned.                                                       *)
BotHealthInRange ==
  \A k \in 1 .. Len(bots) :
     0 <= bots[k].health /\ bots[k].health <= settings.botHealth

(* the place after the step of the bot that is at k before it; 0 when the  *)
(* bot is removed                                                          *)
BotNext(k) ==
  IF \E j \in 1 .. Len(bots') : bots'[j].id = bots[k].id
  THEN CHOOSE j \in 1 .. Len(bots') : bots'[j].id = bots[k].id
  ELSE 0

(* C29: a dead bot that is not removed gets its respawn time, 3000 ms      *)
(* ahead, at the first tick of the bot system that finds it dead, and the  *)
(* tick at or after that time gives it settings.botHealth of health; until *)
(* then it stays as it is in every step: it does not move or shoot, no     *)
(* cursor:update goes out for it, and no bullet or beam hits it.           *)
DeadBotRespawns ==
  [][\A k \in 1 .. Len(bots) :
        bots[k].health <= 0 /\ BotNext(k) # 0 =>
          LET bot == bots[k]
              after == bots'[BotNext(k)]
              due == bot.respawnAt > 0 /\ clock >= bot.respawnAt
          IN /\ BotPass /\ bot.respawnAt = 0 =>
                  after = [bot EXCEPT !.respawnAt = clock + BOT_RESPAWN_DELAY]
             /\ BotPass /\ due =>
                  after.health = settings.botHealth /\ after.respawnAt = 0
             /\ ~(BotPass /\ (due \/ bot.respawnAt = 0)) => after = bot
             /\ \A i \in 1 .. Len(out') :
                   out'[i].id = bot.id =>
                     out'[i].ev \notin {"cursor:update", "bullet:spawn",
                                        "health:update"}]_vars

(* C30: the settings are in their ranges, botCount a natural number,       *)
(* botHealth and playerStartingHealth in 1 .. 100, and no tick of the bot  *)
(* system fails.                                                           *)
SettingsInRange ==
  /\ settings.botCount \in Nat
  /\ settings.botHealth \in 1 .. MAX_HEALTH
  /\ settings.playerStartingHealth \in 1 .. MAX_HEALTH
  /\ \A i \in 1 .. Len(out) : out[i].ev # "uncaughtException"

(* the second half alone: no callback has thrown *)
BotTickNeverFails == \A i \in 1 .. Len(out) : out[i].ev # "uncaughtException"

-----------------------------------------------------------------------------
(* Properties of the shots *)

(* the records of the kind k about the bullet id among the first n of the  *)
(* log                                                                     *)
Logged(k, id, n) ==
  Cardinality({j \in 1 .. n : log[j].kind = k /\ log[j].bullet = id})

(* C31: the bullet:spawn of a shot goes out before every health:update,    *)
(* mine:explode and player:killed that its bullet causes: every collision  *)
(* of a bullet comes after a bullet:spawn of that bullet that no earlier   *)
(* collision has used, and the events of a collision go out in the step of *)
(* the collision.                                                          *)
SpawnBeforeHit ==
  /\ [](\A i \in 1 .. Len(log) :
          log[i].kind = "hit" =>
            Logged("spawn", log[i].bullet, i - 1)
              > Logged("hit", log[i].bullet, i - 1))
  /\ [][(\E i \in 1 .. Len(out') : out'[i].site = "bullet")
          => Len(StruckNow) > 0]_vars

(* a bullet of a player has been announced and has hit a ship, and then a  *)
(* bullet of the bot has been announced                                    *)
SpawnBeforeHitWitness ==
  \E i, j, k \in 1 .. Len(log) :
     /\ i < j /\ j < k
     /\ log[i].kind = "spawn" /\ log[i].by \in UserIds
     /\ log[j].kind = "hit" /\ log[j].what = "ship"
     /\ log[k].kind = "spawn" /\ log[k].by \in BotIds

-----------------------------------------------------------------------------
(* Properties of the pickups *)

(* the powerup:collect events of the step, as places in its output *)
Collects == {i \in 1 .. Len(out') : out'[i].ev = "powerup:collect"}

(* the pickup with the id n: one that lay before the step, or the one that *)
(* the step has spawned at (x, y) with the kind k                          *)
PickupOf(n, x, y, k) ==
  IF \E j \in 1 .. Len(powerups) : powerups[j].id = n
  THEN powerups[CHOOSE j \in 1 .. Len(powerups) : powerups[j].id = n]
  ELSE [id |-> n, x |-> x, y |-> y, type |-> k[1], weaponType |-> k[2]]

(* the ship id has what the pickup p gives *)
Picked(id, p) ==
  CASE p.type = "weapon" -> users'[id].weaponType = p.weaponType
    [] p.type = "health" ->
         /\ users'[id].health = Min(MAX_HEALTH, users[id].health + HEALTH_PACK)
         /\ \E i \in 1 .. Len(out') :
               /\ out'[i].ev = "health:update" /\ out'[i].id = id
               /\ out'[i].val = users'[id].health
    [] OTHER -> users'[id].shield = SHIELD_HP

(* C32: a pickup is collected once: in a pass of the loop every            *)
(* powerup:collect is about another pickup, that pickup is no longer in    *)
(* the set, every pickup that has left the set has its powerup:collect,    *)
(* the collecting ship was alive and has the pickup's effect (the weapon,  *)
(* 50 of health more up to 100, or 30 of shield), also when both ships     *)
(* touch the pickup in the pass, and a ship that collects nothing keeps    *)
(* its weapon, health and shield. No other step collects a pickup.         *)
PickupIsOneShot ==
  [][/\ \A m \in MinePoints, p \in PowerUpPoints, k \in PowerUpKinds :
          Tick(m[1], m[2], p[1], p[2], k[1], k[2]) =>
            /\ \A i, j \in Collects :
                  out'[i].val = out'[j].val /\ out'[i].id = out'[j].id
                    => i = j
            /\ \A i, j \in Collects : out'[i].val = out'[j].val => i = j
            /\ \A i \in Collects :
                  /\ \A j \in 1 .. Len(powerups') :
                        powerups'[j].id # out'[i].val
                  /\ users[out'[i].id].health > 0
                  /\ Picked(out'[i].id, PickupOf(out'[i].val, p[1], p[2], k))
            /\ \A j \in 1 .. Len(powerups) :
                  (\A n \in 1 .. Len(powerups') :
                      powerups'[n].id # powerups[j].id)
                    => \E i \in Collects : out'[i].val = powerups[j].id
            /\ \A id \in Staying :
                  (\A i \in Collects : out'[i].id # id) =>
                     /\ users'[id].weaponType = users[id].weaponType
                     /\ users'[id].health = users[id].health
                     /\ users'[id].shield = users[id].shield
     /\ ~LoopPass => Collects = {} /\ powerups' = powerups]_vars

(* both ships touch a pickup of health that lies at (0, 50), both with 40  *)
(* of health; the pass has given it to the first of them, which has 90,    *)
(* and has spawned no other                                                *)
PickupIsOneShotWitness ==
  /\ \E i \in 1 .. Len(out) :
        out[i].ev = "powerup:collect" /\ out[i].id = "u1"
  /\ DOMAIN users = UserIds
  /\ users["u1"].health = 90 /\ users["u2"].health = 40
  /\ users["u1"].x = 0 /\ users["u1"].y = 0
  /\ users["u2"].x = 0 /\ users["u2"].y = 0
  /\ powerups = << >>

-----------------------------------------------------------------------------
(* Properties of death and respawn *)

(* C33: every ship whose health comes down to 0 goes through the handling  *)
(* of its death, whatever has lowered its health: the step that takes the  *)
(* health of a ship from above 0 to 0 announces its respawn and leaves a   *)
(* respawn timer for it, which gives it 100 of health when it fires.       *)
EveryDeathRespawns ==
  [][\A id \in Staying :
        JsGt(users[id].health, 0) /\ users'[id].health = 0 =>
          /\ Len(Respawns(timers', id)) > 0
          /\ \E i \in 1 .. Len(out') :
                out'[i].ev = "player:respawn" /\ out'[i].id = id]_vars

(* C34: the scores that one admin:endGame submits come from one ranking:   *)
(* an invocation sends no two scores for the same rank, also when ships    *)
(* are killed while it awaits the hub.                                     *)
RanksOfOneEndGameDiffer ==
  \A i \in 1 .. Len(endGames) :
     \A j, k \in 1 .. Len(endGames[i].ranks) :
        endGames[i].ranks[j] = endGames[i].ranks[k] => j = k

-----------------------------------------------------------------------------
(* Properties of the admin snapshots *)

(* the sockets that the event e of the step is delivered to *)
Recipients(e) == IF e.by = None THEN sockets' ELSE {e.by} \cap sockets'

(* C35: an admin:players or admin:bots message is delivered only to a      *)
(* socket that has asked with the password in this step, and never to the  *)
(* socket of an ordinary player.                                           *)
SnapshotsToAdminOnly ==
  [][\A i \in 1 .. Len(out') :
        out'[i].ev \in {"admin:players", "admin:bots"} =>
          \A s \in Recipients(out'[i]) :
             \/ AdminGetPlayers(s, ADMIN_PASSWORD)
             \/ AdminGetBots(s, ADMIN_PASSWORD)
             \/ AdminRemoveAllBots(s, ADMIN_PASSWORD)]_vars

-----------------------------------------------------------------------------
(* Properties of the announced bullets *)

(* C36: the velocity that bullet:spawn announces is the velocity with      *)
(* which the server moves the bullet, for a bullet, a rocket and the       *)
(* bullet of a bot.                                                        *)
SpawnSpeedIsServerSpeed ==
  [][\A i \in 1 .. Len(out') :
        out'[i].ev = "bullet:spawn" =>
          \E k \in 1 .. Len(bullets') :
             /\ bullets'[k].id = out'[i].val
             /\ bullets'[k].userId = out'[i].id
             /\ bullets'[k].vx = out'[i].aux[1]
             /\ bullets'[k].vy = out'[i].aux[2]]_vars

(* the same for the bullets that are no rockets and are not of a bot *)
SpawnSpeedOfStandardBullet ==
  [][\A i \in 1 .. Len(out') :
        out'[i].ev = "bullet:spawn" =>
          \E k \in 1 .. Len(bullets') :
             /\ bullets'[k].id = out'[i].val
             /\ bullets'[k].isRocket \/ bullets'[k].userId \in BotIds
                \/ /\ bullets'[k].vx = out'[i].aux[1]
                   /\ bullets'[k].vy = out'[i].aux[2]]_vars

-----------------------------------------------------------------------------
(* Properties of the removal of a ship *)

(* The ways a ship leaves: players with and without a key connect and      *)
(* leave, an administrator adds a bot and kicks one of them or all of them.*)
NextLeave ==
  \/ \E s \in UserIds, p \in BotPoints :
        AdminAddBot(s, ADMIN_PASSWORD, p[1], p[2], 0)
  \/ \E id \in UserIds : \E k \in {None, KeyOf(id)} : Connect(id, k)
  \/ \E id \in UserIds, name \in {None, "Ada"} : LookupDone(id, name)
  \/ \E id \in UserIds : Disconnect(id)
  \/ \E s \in UserIds, t \in Tokens : KickAll(s, t)
  \/ \E s \in UserIds, t \in Tokens, id \in UserIds \cup BotIds :
        AdminKickPlayer(s, t, id)
  \/ \E p \in RespawnPoints : FireTimer(p[1], p[2])
  \/ Advance

SpecLeave == Init /\ [][NextLeave]_vars

(* C37: whenever a ship leaves the map of the users (its socket            *)
(* disconnects, admin:kickPlayer, admin:kickAll, the cleaning of a stale   *)
(* entry by admin:kickPlayer) user:left is broadcast for its id.           *)
RemovalIsAnnounced ==
  [][\A id \in DOMAIN users \ DOMAIN users' :
        \E i \in 1 .. Len(out') :
           /\ out'[i].ev = "user:left"
           /\ out'[i].id = id
           /\ out'[i].by = None]_vars

(* the same for the ships whose socket is still connected *)
RemovalOfConnectedIsAnnounced ==
  [][\A id \in (DOMAIN users \ DOMAIN users') \cap sockets :
        \E i \in 1 .. Len(out') :
           /\ out'[i].ev = "user:left"
           /\ out'[i].id = id
           /\ out'[i].by = None]_vars

-----------------------------------------------------------------------------
(* Properties of the time between a death and its respawn *)

(* the timer that FireTimer takes is a respawn timer of the ship *)
RespawnFires(id) ==
  /\ DueTimer(World) # 0
  /\ timers[DueTimer(World)].kind = "respawn"
  /\ timers[DueTimer(World)].id = id
  /\ Len(timers') < Len(timers)

(* C38: from its death to the firing of its respawn timer the health of a  *)
(* ship stays 0, and a respawn timer changes a dead ship only: the ship    *)
(* that is alive when it fires keeps its health, place and weapon, and the *)
(* timer of a ship that has left changes no ship.                          *)
DeadUntilRespawn ==
  /\ [][\A id \in DOMAIN users \cap DOMAIN users' :
          (/\ users[id].health = 0
           /\ Respawns(timers, id) # << >>
           /\ ~RespawnFires(id)) => users'[id].health = 0]_vars
  /\ [][\A id \in UserIds :
          RespawnFires(id) /\ (HasUser(World, id) => users[id].health > 0)
             => users' = users]_vars

-----------------------------------------------------------------------------
(* Properties of admin:kickPlayer *)

KickReply(s, ev, id) ==
  \E i \in 1 .. Len(out') :
     out'[i].ev = ev /\ out'[i].id = id /\ out'[i].by = s

(* C39: an admin:kickPlayer that is not authorized or fails changes no     *)
(* world state: for the id of a bot and for an id that is no connected     *)
(* ship the reply is admin:kickPlayer:error with the id, and no ship, no   *)
(* bot and no socket leaves; a kick that succeeds disconnects the socket   *)
(* of the id and no other.                                                 *)
FailedKickChangesNothing ==
  [][\A s \in UserIds, t \in Tokens, id \in UserIds \cup BotIds :
        AdminKickPlayer(s, t, id) =>
          IF isAuthorized(t) /\ id \in DOMAIN users \cap sockets
          THEN /\ sockets' = sockets \ {id}
               /\ KickReply(s, "admin:kickPlayer:ok", id)
          ELSE /\ users' = users
               /\ bots' = bots
               /\ sockets' = sockets
               /\ isAuthorized(t) => KickReply(s, "admin:kickPlayer:error", id)
               /\ ~isAuthorized(t) => KickReply(s, "admin:error", None)]_vars

(* the same for the ids that are not a ship without a socket *)
FailedKickOfNoStaleShip ==
  [][\A s \in UserIds, t \in Tokens, id \in UserIds \cup BotIds :
        AdminKickPlayer(s, t, id) /\ id \notin DOMAIN users \ sockets =>
          IF isAuthorized(t) /\ id \in DOMAIN users \cap sockets
          THEN /\ sockets' = sockets \ {id}
               /\ KickReply(s, "admin:kickPlayer:ok", id)
          ELSE /\ users' = users
               /\ bots' = bots
               /\ sockets' = sockets
               /\ isAuthorized(t) => KickReply(s, "admin:kickPlayer:error", id)
               /\ ~isAuthorized(t) => KickReply(s, "admin:error", None)]_vars

-----------------------------------------------------------------------------
(* Properties of the collision pass *)

(* The pass: two players at the centre, each shoots at the other from 15   *)
(* or 30 units to the left, moves away and comes back; the loop runs. Two  *)
(* bullets can be in flight.                                               *)
PassShots == {<< -15, 0 >>, << -30, 0 >>}
PassMoves == {<< 0, 0 >>, << 500, 500 >>}

PassStart ==
  LET a == onConnection(Start(MaxPassSteps), "u1", None)
      b == onConnection([a EXCEPT !.out = << >>, !.watch = {"hit", "pair"}],
                        "u2", None)
  IN [b EXCEPT !.out = << >>]

InitPass == \E w \in {PassStart} : Holds(w)

NextPass ==
  \/ \E id \in UserIds, p \in PassShots :
        BulletShoot(id, p[1], p[2], 0, FALSE)
  \/ \E id \in UserIds, p \in PassMoves : CursorMove(id, p[1], p[2], 0)
  \/ Tick(200, 0, 0, 50, "weapon", "laser")

SpecPass == InitPass /\ [][NextPass]_vars

(* the bullet b of the world w touches a ship that is alive and not its own *)
Touches(w, b) == BulletShip(w, b) # 0

(* C40: the collision pass of a tick tests every bullet that it does not   *)
(* remove: after the loop no bullet is left that touches an alive ship of  *)
(* another player, also when the pass has removed another bullet.          *)
PassTestsEveryBullet ==
  [][Tick(200, 0, 0, 50, "weapon", "laser") =>
       \A k \in 1 .. Len(bullets') : ~Touches(World', bullets'[k])]_vars

(* the same for the passes that remove no bullet *)
PassWithoutRemovalTestsEveryBullet ==
  [][Tick(200, 0, 0, 50, "weapon", "laser") /\ StruckNow = << >> =>
       \A k \in 1 .. Len(bullets') : ~Touches(World', bullets'[k])]_vars

====
